---- MODULE Spec2Model ----
(***************************************************************************)
(* The claim-information dialogue flow of src/agent/claim_flow.py: the     *)
(* validators, the handlers behind each node's function, the node catalog  *)
(* and the persistence calls of src/agent/database.py the handlers make.   *)
(*                                                                         *)
(* Python strings are TLA+ strings; a value of the runtime's argument map  *)
(* is tagged with its Python type (PyStr, PyBool, PyInt) because the       *)
(* handlers' behaviour depends on it (truthiness, str(), .lower()).        *)
(***************************************************************************)
EXTENDS Integers, Sequences, FiniteSets, TLC

(***************************************************************************)
(* Bounds of the model.                                                    *)
(***************************************************************************)
\* a conversation is followed until it has issued this many persistence requests
MaxCalls == 7

(***************************************************************************)
(* Python values and string primitives.                                    *)
(***************************************************************************)
PyStr(s) == [t |-> "str", v |-> s]
PyBool(b) == [t |-> "bool", v |-> b]
PyInt(n) == [t |-> "int", v |-> n]
PyNone == [t |-> "NoneType"]

\* bool(x)
Truthy(x) ==
    CASE x.t = "str" -> x.v # ""
      [] x.t = "bool" -> x.v
      [] x.t = "int" -> x.v # 0
      [] x.t = "NoneType" -> FALSE

\* str(x)
Str(x) ==
    CASE x.t = "str" -> x.v
      [] x.t = "bool" -> (IF x.v THEN "True" ELSE "False")
      [] x.t = "int" -> ToString(x.v)
      [] x.t = "NoneType" -> "None"

Chr(s, i) == SubSeq(s, i, i)

\* F applied to the value of e: e is evaluated once, whatever use F makes of it
With(e, F(_)) == CHOOSE r \in {F(v) : v \in {e}} : TRUE

UpperLetters == "ABCDEFGHIJKLMNOPQRSTUVWXYZ"
LowerLetters == "abcdefghijklmnopqrstuvwxyz"
DigitChars == "0123456789"
WhitespaceChars == {" ", "\t"}

IndexIn(c, alphabet) ==
    IF \E i \in 1..Len(alphabet) : Chr(alphabet, i) = c
    THEN CHOOSE i \in 1..Len(alphabet) : Chr(alphabet, i) = c
    ELSE 0

IsDigit(c) == IndexIn(c, DigitChars) > 0
IsLetter(c) == IndexIn(c, UpperLetters) > 0 \/ IndexIn(c, LowerLetters) > 0

LowerChar(c) ==
    IF IndexIn(c, UpperLetters) > 0
    THEN Chr(LowerLetters, IndexIn(c, UpperLetters))
    ELSE c

RECURSIVE LowerFrom(_, _)
LowerFrom(s, i) ==
    IF i > Len(s) THEN "" ELSE LowerChar(Chr(s, i)) \o LowerFrom(s, i + 1)

\* s.lower()
Lower(s) == LowerFrom(s, 1)

\* sub in s
Contains(sub, s) ==
    \E i \in 1..(Len(s) - Len(sub) + 1) : SubSeq(s, i, i + Len(sub) - 1) = sub

\* s.strip(): from the first to the last character that is not whitespace
Strip(s) ==
    LET inked == {i \in 1..Len(s) : Chr(s, i) \notin WhitespaceChars}
    IN  IF inked = {} THEN ""
        ELSE SubSeq(s, CHOOSE i \in inked : \A j \in inked : i <= j,
                       CHOOSE i \in inked : \A j \in inked : j <= i)

RECURSIVE RemoveFrom(_, _, _)
RemoveFrom(s, c, i) ==
    IF i > Len(s) THEN ""
    ELSE (IF Chr(s, i) = c THEN "" ELSE Chr(s, i)) \o RemoveFrom(s, c, i + 1)

\* s.replace(c, '') for a one-character c
Remove(s, c) == RemoveFrom(s, c, 1)

RECURSIVE JoinFrom(_, _, _)
JoinFrom(sep, seq, i) ==
    IF i > Len(seq) THEN ""
    ELSE IF i = Len(seq) THEN seq[i]
    ELSE seq[i] \o sep \o JoinFrom(sep, seq, i + 1)

\* sep.join(seq)
Join(sep, seq) == JoinFrom(sep, seq, 1)

IsDigits(s) == s # "" /\ \A i \in 1..Len(s) : IsDigit(Chr(s, i))

RECURSIVE ToNatUpTo(_, _)
ToNatUpTo(s, n) ==
    IF n = 0 THEN 0
    ELSE 10 * ToNatUpTo(s, n - 1) + (IndexIn(Chr(s, n), DigitChars) - 1)

\* int(s) for a string of decimal digits
ToNat(s) == ToNatUpTo(s, Len(s))

\* n zero-padded to the given width
RECURSIVE ZeroPad(_, _)
ZeroPad(n, width) ==
    IF Len(ToString(n)) >= width THEN ToString(n)
    ELSE "0" \o ZeroPad(n, width - 1)

RECURSIVE Pow10(_)
Pow10(k) == IF k = 0 THEN 1 ELSE 10 * Pow10(k - 1)

(***************************************************************************)
(* What a validator call produces: the tuple it returns, or the exception  *)
(* that leaves it.                                                         *)
(***************************************************************************)
Returned(valid, res) == [exc |-> "", is_valid |-> valid, result |-> res]
Raised(e) == [exc |-> e, is_valid |-> FALSE, result |-> ""]

(***************************************************************************)
(* validate_status                                                         *)
(***************************************************************************)
valid_statuses ==
    << "Pending", "Approved", "Denied", "Rejected", "In Review",
       "Under Investigation", "Closed", "Appealed" >>

\* StatusMatches testing only whether the input is part of the label
StatusMatches_one_way(status_lower, valid_status) ==
    Contains(status_lower, Lower(valid_status))

\* the condition of the loop of validate_status for one canonical label
StatusMatches(status_lower, valid_status) ==
    \/ Contains(status_lower, Lower(valid_status))
    \/ Contains(Lower(valid_status), status_lower)

\* the loop of validate_status: the first label that matches, 0 when none does
FirstMatch(status_lower) ==
    LET hits == {i \in 1..Len(valid_statuses) :
                    StatusMatches(status_lower, valid_statuses[i])}
    IN  IF hits = {} THEN 0 ELSE CHOOSE i \in hits : \A j \in hits : i <= j

validate_status(status) ==
    IF ~Truthy(status) THEN Returned(FALSE, "No status provided")
    ELSE IF status.t # "str" THEN Raised("AttributeError")
    ELSE With(With(With(status.v, Lower), Strip), LAMBDA status_lower :
           With(FirstMatch(status_lower), LAMBDA found :
             IF found > 0
             THEN Returned(TRUE, valid_statuses[found])
             ELSE Returned(FALSE,
                     "Status '" \o status.v
                       \o "' is not recognized. Valid statuses are: "
                       \o Join(", ", valid_statuses))))

(***************************************************************************)
(* validate_amount.  A float is the special value inf or nan, or a signed  *)
(* decimal num / 10^scale.  Formatting rounds to cents; the inputs the     *)
(* model draws have at most 9 significant digits, where the binary float   *)
(* and the decimal round alike unless the third decimal is an exact tie,   *)
(* which is rounded half to even as for an exactly representable value.    *)
(***************************************************************************)
FloatNum(neg, num, scale) == [kind |-> "num", neg |-> neg, num |-> num, scale |-> scale]
FloatSpecial(kind, neg) == [kind |-> kind, neg |-> neg, num |-> 0, scale |-> 0]
FloatError == [kind |-> "ValueError", neg |-> FALSE, num |-> 0, scale |-> 0]

\* digitpart of Python's float grammar: digits, single underscores between them
IsDigitPart(s) ==
    /\ s # ""
    /\ \A i \in 1..Len(s) : IsDigit(Chr(s, i)) \/ Chr(s, i) = "_"
    /\ IsDigit(Chr(s, 1)) /\ IsDigit(Chr(s, Len(s)))
    /\ ~Contains("__", s)

DigitPartValue(s) == With(Remove(s, "_"), ToNat)
DigitPartLen(s) == Len(Remove(s, "_"))

\* the position of the first occurrence of a character of cs in s, or 0
FirstIndexOf(cs, s) ==
    IF \E i \in 1..Len(s) : Chr(s, i) \in cs
    THEN CHOOSE i \in 1..Len(s) :
            Chr(s, i) \in cs /\ \A j \in 1..(i - 1) : Chr(s, j) \notin cs
    ELSE 0

\* pointfloat without exponent: digitpart ["." [digitpart]] | "." digitpart
PointFloat(neg, ip, fp) ==
    IF /\ (ip = "" \/ IsDigitPart(ip))
       /\ (fp = "" \/ IsDigitPart(fp))
       /\ (ip # "" \/ fp # "")
    THEN With(IF fp = "" THEN 0 ELSE DigitPartLen(fp), LAMBDA scale :
           FloatNum(neg,
               (IF ip = "" THEN 0 ELSE DigitPartValue(ip)) * Pow10(scale)
                 + (IF fp = "" THEN 0 ELSE DigitPartValue(fp)),
               scale))
    ELSE FloatError

ParseMantissa(neg, m) ==
    With(FirstIndexOf({"."}, m), LAMBDA dot :
        PointFloat(neg,
                   IF dot = 0 THEN m ELSE SubSeq(m, 1, dot - 1),
                   IF dot = 0 THEN "" ELSE SubSeq(m, dot + 1, Len(m))))

\* mantissa m times ten to the exponent written ex ("" when there is none)
Scaled(m, hasExp, ex) ==
    LET exSigned == ex # "" /\ Chr(ex, 1) \in {"+", "-"}
        exNeg == ex # "" /\ Chr(ex, 1) = "-"
        exDigits == IF exSigned THEN SubSeq(ex, 2, Len(ex)) ELSE ex
    IN  IF ~hasExp THEN m
        ELSE IF m.kind = "ValueError" \/ ~IsDigitPart(exDigits) THEN FloatError
        ELSE With(DigitPartValue(exDigits), LAMBDA e :
               IF exNeg THEN FloatNum(m.neg, m.num, m.scale + e)
               ELSE IF e >= m.scale THEN FloatNum(m.neg, m.num * Pow10(e - m.scale), 0)
               ELSE FloatNum(m.neg, m.num, m.scale - e))

\* float(s) for a string without surrounding whitespace
float(s) ==
    LET signed == s # "" /\ Chr(s, 1) \in {"+", "-"}
        neg == s # "" /\ Chr(s, 1) = "-"
        body == IF signed THEN SubSeq(s, 2, Len(s)) ELSE s
    IN  IF Lower(body) \in {"inf", "infinity"} THEN FloatSpecial("inf", neg)
        ELSE IF Lower(body) = "nan" THEN FloatSpecial("nan", neg)
        ELSE With(FirstIndexOf({"e", "E"}, body), LAMBDA e :
               With(ParseMantissa(neg, IF e = 0 THEN body ELSE SubSeq(body, 1, e - 1)),
                    LAMBDA m :
                 Scaled(m, e # 0, IF e = 0 THEN "" ELSE SubSeq(body, e + 1, Len(body)))))

\* amount <= 0
FloatLeqZero(f) ==
    CASE f.kind = "num" -> f.neg \/ f.num = 0
      [] f.kind = "inf" -> f.neg
      [] f.kind = "nan" -> FALSE

\* the value in cents, rounded to the nearest cent, ties to even
RoundToCents(f) ==
    IF f.scale <= 2 THEN f.num * Pow10(2 - f.scale)
    ELSE LET unit == Pow10(f.scale - 2)
             q == f.num \div unit
             r == f.num % unit
         IN  IF 2 * r > unit \/ (2 * r = unit /\ q % 2 = 1) THEN q + 1 ELSE q

\* the "," grouping of the format specification
RECURSIVE GroupThousands(_)
GroupThousands(n) ==
    IF n < 1000 THEN ToString(n)
    ELSE GroupThousands(n \div 1000) \o "," \o ZeroPad(n % 1000, 3)

\* f"{amount:,.2f}" for a value that is not <= 0
FormatAmount(f) ==
    IF f.kind # "num" THEN f.kind
    ELSE With(RoundToCents(f), LAMBDA cents :
           GroupThousands(cents \div 100) \o "." \o ZeroPad(cents % 100, 2))

\* amount_str.strip().replace('$', '').replace(',', '').replace(' ', '')
Cleaned(amount_str) ==
    With(With(With(Strip(amount_str), LAMBDA a : Remove(a, "$")),
                                      LAMBDA b : Remove(b, ",")),
                                      LAMBDA c : Remove(c, " "))

\* validate_amount taking a missing amount for an amount of zero
validate_amount_empty_ok(amount_str) ==
    IF ~Truthy(amount_str) THEN Returned(TRUE, "$0.00")
    ELSE IF amount_str.t # "str" THEN Raised("AttributeError")
    ELSE With(With(Cleaned(amount_str.v), float), LAMBDA amount :
             IF amount.kind = "ValueError"
             THEN Returned(FALSE,
                     "Could not understand the amount '" \o amount_str.v
                       \o "'. Please provide a number")
             ELSE IF FloatLeqZero(amount)
             THEN Returned(FALSE, "Claim amount must be greater than zero")
             ELSE Returned(TRUE, "$" \o FormatAmount(amount)))

validate_amount(amount_str) ==
    IF ~Truthy(amount_str) THEN Returned(FALSE, "No amount provided")
    ELSE IF amount_str.t # "str" THEN Raised("AttributeError")
    ELSE With(With(Cleaned(amount_str.v), float), LAMBDA amount :
             IF amount.kind = "ValueError"
             THEN Returned(FALSE,
                     "Could not understand the amount '" \o amount_str.v
                       \o "'. Please provide a number")
             ELSE IF FloatLeqZero(amount)
             THEN Returned(FALSE, "Claim amount must be greater than zero")
             ELSE Returned(TRUE, "$" \o FormatAmount(amount)))

(***************************************************************************)
(* validate_date.  date_parser.parse(date_str, fuzzy=True) is modelled for *)
(* date-only utterances: the string is cut into runs of digits and runs of *)
(* letters, a run of letters that names a month gives the month, a run of  *)
(* digits gives a year, month or day, every other token is skipped (fuzzy) *)
(* and the components found are resolved in the parser's month/day/year    *)
(* order; a component not found is taken from the current date.  Times of  *)
(* day, weekday names and time zones are outside the fragment.             *)
(***************************************************************************)
\* datetime.now(), the parser's default for the components not given
now == [year |-> 2026, month |-> 11, day |-> 5]

MonthNames ==
    << "january", "february", "march", "april", "may", "june", "july",
       "august", "september", "october", "november", "december" >>

MonthIndex(tok) ==
    LET hits == {i \in 1..Len(MonthNames) :
                    \/ Lower(tok) = MonthNames[i]
                    \/ Lower(tok) = SubSeq(MonthNames[i], 1, 3)
                    \/ (Lower(tok) = "sept" /\ MonthNames[i] = "september")}
    IN  IF hits = {} THEN 0 ELSE CHOOSE i \in hits : TRUE

CharClass(c) == IF IsDigit(c) THEN "digit" ELSE IF IsLetter(c) THEN "letter" ELSE "other"

\* the last position of the run of characters of one class that starts at i
RunEnd(s, i) ==
    CHOOSE j \in i..Len(s) :
        /\ \A k \in i..j : CharClass(Chr(s, k)) = CharClass(Chr(s, i))
        /\ (j = Len(s) \/ CharClass(Chr(s, j + 1)) # CharClass(Chr(s, i)))

\* the maximal runs of digits and of letters of s from position i on, in order
RECURSIVE RunsFrom(_, _)
RunsFrom(s, i) ==
    IF i > Len(s) THEN << >>
    ELSE IF CharClass(Chr(s, i)) = "other" THEN RunsFrom(s, i + 1)
    ELSE With(RunEnd(s, i), LAMBDA j : << SubSeq(s, i, j) >> \o RunsFrom(s, j + 1))

Runs(s) == RunsFrom(s, 1)

\* the year/month/day candidate a token gives: label "Y" is a number written
\* with more than two digits, "M" a month name, "" an open number
YmdEntry(tok) ==
    IF IsDigits(tok)
    THEN << [v |-> ToNat(tok), label |-> IF Len(tok) > 2 THEN "Y" ELSE ""] >>
    ELSE IF MonthIndex(tok) > 0
    THEN << [v |-> MonthIndex(tok), label |-> "M"] >>
    ELSE << >>

RECURSIVE YmdFrom(_, _)
YmdFrom(toks, i) ==
    IF i > Len(toks) THEN << >> ELSE YmdEntry(toks[i]) \o YmdFrom(toks, i + 1)

\* the candidates among the tokens, in order; the other tokens are skipped
YmdOf(toks) == YmdFrom(toks, 1)

NoDate == [ok |-> FALSE, year |-> 0, month |-> 0, day |-> 0]
Ymd(y, m, d) == [ok |-> TRUE, year |-> y, month |-> m, day |-> d]

\* _ymd.resolve_ymd with yearfirst = dayfirst = False; 0 is a component not given
ResolveYmd(ymd) ==
    LET n == Len(ymd)
        ys == {i \in 1..n : ymd[i].label = "Y"}
        ms == {i \in 1..n : ymd[i].label = "M"}
        yi == IF ys = {} THEN 0 ELSE CHOOSE i \in ys : TRUE
        mi == IF ms = {} THEN 0 ELSE CHOOSE i \in ms : TRUE
        labelled == Cardinality(ys) + Cardinality(ms)
        V(i) == ymd[i].v
        rest == (1..n) \ (ys \cup ms)
        other == IF rest = {} THEN 0 ELSE V(CHOOSE i \in rest : TRUE)
    IN  IF n = 0 \/ n > 3 \/ Cardinality(ys) > 1 \/ Cardinality(ms) > 1 THEN NoDate
        ELSE IF labelled = n \/ (n = 3 /\ labelled = 2)
        THEN Ymd(IF yi = 0 THEN 0 ELSE V(yi), IF mi = 0 THEN 0 ELSE V(mi), other)
        ELSE IF n = 1
        THEN (IF V(1) > 31 THEN Ymd(V(1), 0, 0) ELSE Ymd(0, 0, V(1)))
        ELSE IF n = 2
        THEN (IF mi # 0
              THEN (IF other > 31 THEN Ymd(other, V(mi), 0) ELSE Ymd(0, V(mi), other))
              ELSE IF V(1) > 31 THEN Ymd(V(1), V(2), 0)
              ELSE IF V(2) > 31 THEN Ymd(V(2), V(1), 0)
              ELSE Ymd(0, V(1), V(2)))
        ELSE IF mi = 1
        THEN (IF V(2) > 31 THEN Ymd(V(2), V(1), V(3)) ELSE Ymd(V(3), V(1), V(2)))
        ELSE IF mi = 2
        THEN (IF V(1) > 31 THEN Ymd(V(1), V(2), V(3)) ELSE Ymd(V(3), V(2), V(1)))
        ELSE IF mi = 3
        THEN (IF V(2) > 31 THEN Ymd(V(2), V(3), V(1)) ELSE Ymd(V(1), V(3), V(2)))
        ELSE IF V(1) > 31 \/ yi = 1 THEN Ymd(V(1), V(2), V(3))
        ELSE IF V(1) > 12 THEN Ymd(V(3), V(2), V(1))
        ELSE Ymd(V(3), V(1), V(2))

\* parserinfo.convertyear: a year written with two digits, near the current year
ConvertYear(y, century_specified) ==
    IF y >= 100 \/ century_specified THEN y
    ELSE LET c == y + (now.year \div 100) * 100
         IN  IF c >= now.year + 50 THEN c - 100
             ELSE IF c < now.year - 50 THEN c + 100
             ELSE c

IsLeap(y) == (y % 4 = 0 /\ y % 100 # 0) \/ y % 400 = 0

DaysInMonth(y, m) ==
    IF m = 2 THEN (IF IsLeap(y) THEN 29 ELSE 28)
    ELSE IF m \in {4, 6, 9, 11} THEN 30
    ELSE 31

\* date_parser.parse(date_str, fuzzy=True): the date, or ok = FALSE for ValueError
\* the date of the resolved components r, the missing ones taken from now
BuildDate(r, century) ==
    LET givenYear == r.year # 0 \/ (century /\ r.ok)
        year == IF givenYear THEN ConvertYear(r.year, century) ELSE now.year
        month == IF r.month = 0 THEN now.month ELSE r.month
        day == IF r.day # 0 THEN r.day
               ELSE IF month \in 1..12 /\ now.day > DaysInMonth(year, month)
               THEN DaysInMonth(year, month)
               ELSE now.day
    IN  IF /\ r.ok
           /\ year \in 1..9999
           /\ month \in 1..12
           /\ day \in 1..DaysInMonth(year, month)
        THEN Ymd(year, month, day)
        ELSE NoDate

ParseDate(s) ==
    With(With(With(s, Runs), YmdOf), LAMBDA ymd :
        With(ResolveYmd(ymd), LAMBDA r :
            BuildDate(r, \E i \in 1..Len(ymd) : ymd[i].label = "Y")))

\* parsed_date.strftime('%Y-%m-%d')
FormatDate(d) == ToString(d.year) \o "-" \o ZeroPad(d.month, 2) \o "-" \o ZeroPad(d.day, 2)

validate_date(date_str) ==
    IF ~Truthy(date_str) THEN Returned(FALSE, "No date provided")
    ELSE With(IF date_str.t = "str" THEN ParseDate(date_str.v) ELSE NoDate,
              LAMBDA parsed_date :
             IF parsed_date.ok
             THEN Returned(TRUE, FormatDate(parsed_date))
             ELSE Returned(FALSE, "Could not understand the date '" \o Str(date_str) \o "'"))

(***************************************************************************)
(* generate_claim_number: ten characters drawn from A-Z and 0-9, then      *)
(* "000".  The model draws the ten characters from a few representative    *)
(* outcomes of random.choices.                                             *)
(***************************************************************************)
RandomChoices == {"A1B2C3D4E5", "ZZ99XX00QQ"}

\* generate_claim_number appending "00" instead of "000"
generate_claim_number_short == {c \o "00" : c \in RandomChoices}

generate_claim_number == {c \o "000" : c \in RandomChoices}

(***************************************************************************)
(* src/agent/database.py: what each call can return.  An insert gives the  *)
(* new row's id, or None when the request fails or returns no row; an      *)
(* update gives True, or False when the request fails.  The requests made  *)
(* are kept, in order, in the variable calls; update_ret is what the last  *)
(* handler's update returned (None when it made no update).                *)
(***************************************************************************)
RecordIds == {17}

create_conversation_record(claim_number) == {PyNone} \cup {PyInt(i) : i \in RecordIds}

update_conversation_record(conversation_id, data) == BOOLEAN

InsertCall(claim_number, ret) ==
    [op |-> "insert", claim_id |-> claim_number, state |-> "ongoing", ret |-> ret]

UpdateCall(conversation_id, key, value) ==
    [op |-> "update", id |-> conversation_id, key |-> key, value |-> value]

(***************************************************************************)
(* The state of one conversation.                                          *)
(*   node    the node the runtime currently presents                       *)
(*   state   flow_manager.state, a dict: a function on the keys it holds   *)
(*   result  what the last function call gave back to the runtime          *)
(*   call    the last function call the runtime made: name and arguments   *)
(*   calls   the persistence requests issued so far                        *)
(*   update_ret  what the update of the last call returned, None if none   *)
(* Two more variables serve the comparisons and the function-level checks: *)
(*   other   a second conversation, set aside while this one is served     *)
(*   probe   one call of a validator or of the generator, outside a        *)
(*           conversation: the function, its input and what it gave        *)
(***************************************************************************)
VARIABLES node, state, result, call, calls, update_ret, other, probe,
          observer, frames, tasks

vars == << node, state, result, call, calls, update_ret, other, probe,
          observer, frames, tasks >>

\* d[k] = v
Put(d, k, v) == [x \in DOMAIN d \cup {k} |-> IF x = k THEN v ELSE d[x]]

Has(d, k) == k \in DOMAIN d

\* args.get(key, default)
ArgGet(args, key, default) == IF Has(args, key) THEN args[key] ELSE default

EmptyDict == [k \in {} |-> ""]

(***************************************************************************)
(* Results.                                                                *)
(***************************************************************************)
ClaimNumberResult(claim_number) == [type |-> "ClaimNumberResult", claim_number |-> claim_number]
SubmissionDateResult(date) == [type |-> "SubmissionDateResult", date |-> date]
StatusResult(status) == [type |-> "StatusResult", status |-> status]
AmountResult(amount) == [type |-> "AmountResult", amount |-> amount]
VerificationResult(confirmed) == [type |-> "VerificationResult", confirmed |-> confirmed]
FlowResult == [type |-> "FlowResult"]
FlowResultError(error) == [type |-> "FlowResult", error |-> error]
\* the call did not return: the exception that left the handler
Exception(exc) == [type |-> "exception", exc |-> exc]

HasError(r) == Has(r, "error")

(***************************************************************************)
(* Node catalog.  A node is its name, the names of the functions it        *)
(* declares and the values its instruction embeds.                         *)
(***************************************************************************)
start_node(claim_number) ==
    [name |-> "Start", functions |-> {"claim_found_in_system"}, embeds |-> << claim_number >>]

ask_submission_date_node ==
    [name |-> "AskSubmissionDate", functions |-> {"capture_submission_date"}, embeds |-> << >>]

ask_status_node ==
    [name |-> "AskStatus", functions |-> {"capture_status"}, embeds |-> << >>]

ask_amount_node ==
    [name |-> "AskAmount", functions |-> {"capture_amount"}, embeds |-> << >>]

verify_information_node(claim_number, submission_date, status, amount) ==
    [name |-> "Verify", functions |-> {"verify_information"},
     embeds |-> << claim_number, submission_date, status, amount >>]

\* correction_node also declaring the function of the Start node
correction_node_greeting ==
    [name |-> "Correction", functions |-> {"identify_correction", "claim_found_in_system"},
     embeds |-> << >>]

correction_node ==
    [name |-> "Correction", functions |-> {"identify_correction"}, embeds |-> << >>]

\* end_node still declaring the function of the Verify node
end_node_accepting == [name |-> "End", functions |-> {"verify_information"}, embeds |-> << >>]

end_node == [name |-> "End", functions |-> {}, embeds |-> << >>]

create_initial_node == {start_node(claim_number) : claim_number \in generate_claim_number}

(***************************************************************************)
(* The argument maps the runtime passes.  The schema of each function      *)
(* constrains the runtime, not the handler: a value may be missing or of   *)
(* another type than the schema names.                                     *)
(***************************************************************************)
NoArgs == EmptyDict

DateInputs ==
    {PyStr("January 15th 2024"), PyStr("it was 03/04/2023"),
     PyStr("banana"), PyStr("2/30/2024"), PyStr(""), PyInt(5)}

StatusInputs ==
    {PyStr("approved"), PyStr("It is Under Investigation"),
     PyStr("xyz"), PyStr("  "), PyStr(""), PyInt(5)}

AmountInputs ==
    {PyStr("$500"), PyStr(" 1234.5 "),
     PyStr("banana"), PyStr("-5"), PyStr(""), PyInt(5)}

ConfirmedInputs ==
    {PyBool(TRUE), PyBool(FALSE), PyStr("yes"), PyStr("Yeah"), PyStr("TRUE"),
     PyStr("no"), PyStr("false"), PyStr(""), PyInt(0), PyInt(1)}

FieldInputs ==
    {PyStr("the amount"), PyStr("Status"), PyStr("submission DATE"),
     PyStr("when they submitted it"), PyStr("money"), PyStr("the dollar value"),
     PyStr("update the amount"), PyStr("status and amount"),
     PyStr("the claim number"), PyStr(""), PyInt(5)}

DateArgs == {NoArgs} \cup {[date |-> x] : x \in DateInputs}
StatusArgs == {NoArgs} \cup {[status |-> x] : x \in StatusInputs}
AmountArgs == {NoArgs} \cup {[amount |-> x] : x \in AmountInputs}
VerificationArgs == {NoArgs} \cup {[confirmed |-> x] : x \in ConfirmedInputs}
CorrectionArgs == {NoArgs} \cup {[field_to_correct |-> x] : x \in FieldInputs}

(***************************************************************************)
(* The validators tabulated over the values the runtime passes: each       *)
(* table is its validator, computed once for every input of the model.     *)
(***************************************************************************)
DateTable == [x \in DateInputs |-> validate_date(x)]
StatusTable == [x \in StatusInputs |-> validate_status(x)]
AmountTable == [x \in AmountInputs |-> validate_amount(x)]

(***************************************************************************)
(* Handlers.  Each gives what one call produces from the current state:    *)
(* the dict after the call, the persistence requests after the call, the   *)
(* result and the next node.  A call that raises leaves the runtime on the *)
(* node it was on; what it wrote before raising stays written.             *)
(***************************************************************************)
Outcome(st, log, res, nd) == [state |-> st, calls |-> log, result |-> res, node |-> nd]

\* the last request of the log, when the call added an update to it
IssuedUpdate(log) == Len(log) > Len(calls) /\ log[Len(log)].op = "update"

\* conversation_id = flow_manager.state.get("conversation_id"); if conversation_id:
HasRecord(st) == Has(st, "conversation_id") /\ st.conversation_id # 0

\* Updated without the test of the record id
Updated_without_record(st, log, key, value) ==
    Append(log, UpdateCall(IF Has(st, "conversation_id") THEN st.conversation_id ELSE 0,
                           key, value))

\* the update a handler issues when the conversation has a record
Updated(st, log, key, value) ==
    IF HasRecord(st)
    THEN Append(log, UpdateCall(st.conversation_id, key, value))
    ELSE log

\* Correcting with the key misspelt: the flag the Correction node sets is never seen
Correcting_misread(st) == Has(st, "correction") /\ st.correction

\* flow_manager.state.get("correcting")
Correcting(st) == Has(st, "correcting") /\ st.correcting

\* handle_greeting refusing to go on when no record could be created
handle_greeting_needs_record(args, generated, created) ==
    LET known == Has(state, "claim_number") /\ state.claim_number # ""
        claim_number == IF known THEN state.claim_number ELSE generated
        st1 == IF known THEN state ELSE Put(state, "claim_number", claim_number)
        log1 == Append(calls, InsertCall(claim_number, created))
    IN  IF Truthy(created)
        THEN Outcome(Put(st1, "conversation_id", created.v),
                 Append(log1, UpdateCall(created.v, "state", "ongoing")),
                 ClaimNumberResult(claim_number), ask_submission_date_node)
        ELSE Outcome(st1, log1, FlowResultError("The claim could not be recorded."), node)

handle_greeting(args, generated, created) ==
    LET known == Has(state, "claim_number") /\ state.claim_number # ""
        claim_number == IF known THEN state.claim_number ELSE generated
        st1 == IF known THEN state ELSE Put(state, "claim_number", claim_number)
        log1 == Append(calls, InsertCall(claim_number, created))
        st2 == IF Truthy(created) THEN Put(st1, "conversation_id", created.v) ELSE st1
        log2 == IF Truthy(created)
                THEN Append(log1, UpdateCall(created.v, "state", "ongoing"))
                ELSE log1
    IN  Outcome(st2, log2, ClaimNumberResult(claim_number), ask_submission_date_node)

\* handle_submission_date storing the text it was given instead of the parsed date
handle_submission_date_raw(args) ==
    LET date_input == ArgGet(args, "date", PyStr(""))
        v == DateTable[date_input]
        st1 == Put(state, "submission_date", Str(date_input))
        log1 == Updated(st1, calls, "claim_date", Str(date_input))
        st2 == Put(st1, "correcting", FALSE)
    IN  IF v.is_valid
        THEN IF Correcting(st1)
             THEN Outcome(st2, log1, SubmissionDateResult(v.result),
                      verify_information_node(st2.claim_number, v.result,
                                              st2.status, st2.amount))
             ELSE Outcome(st1, log1, SubmissionDateResult(v.result), ask_status_node)
        ELSE Outcome(state, calls, FlowResultError("I'm sorry, " \o v.result),
                 ask_submission_date_node)

\* handle_submission_date reading the date of the Verify node before it is rewritten
handle_submission_date_stale(args) ==
    LET date_input == ArgGet(args, "date", PyStr(""))
        v == DateTable[date_input]
        st1 == Put(state, "submission_date", v.result)
        log1 == Updated(st1, calls, "claim_date", v.result)
        st2 == Put(st1, "correcting", FALSE)
    IN  IF v.exc # "" THEN Outcome(state, calls, Exception(v.exc), node)
        ELSE IF v.is_valid
        THEN IF Correcting(st1)
             THEN Outcome(st2, log1, SubmissionDateResult(v.result),
                      verify_information_node(st2.claim_number, state.submission_date,
                                              st2.status, st2.amount))
             ELSE Outcome(st1, log1, SubmissionDateResult(v.result), ask_status_node)
        ELSE Outcome(state, calls,
                 FlowResultError("I'm sorry, " \o v.result
                     \o ". Could you please provide the date again? For example, you can say January 15th 2024, or 01/15/2024."),
                 ask_submission_date_node)

handle_submission_date(args) ==
    LET date_input == ArgGet(args, "date", PyStr(""))
        v == DateTable[date_input]
        st1 == Put(state, "submission_date", v.result)
        log1 == Updated(st1, calls, "claim_date", v.result)
        st2 == Put(st1, "correcting", FALSE)
    IN  IF v.exc # "" THEN Outcome(state, calls, Exception(v.exc), node)
        ELSE IF v.is_valid
        THEN IF Correcting(st1)
             THEN IF {"claim_number", "status", "amount"} \subseteq DOMAIN st2
                  THEN Outcome(st2, log1, SubmissionDateResult(v.result),
                           verify_information_node(st2.claim_number, v.result,
                                                   st2.status, st2.amount))
                  ELSE Outcome(st2, log1, Exception("KeyError"), node)
             ELSE Outcome(st1, log1, SubmissionDateResult(v.result), ask_status_node)
        ELSE Outcome(state, calls,
                 FlowResultError("I'm sorry, " \o v.result
                     \o ". Could you please provide the date again? For example, you can say January 15th 2024, or 01/15/2024."),
                 ask_submission_date_node)

\* handle_status moving on to the amount when the status is not recognized
handle_status_skips(args) ==
    LET status_input == ArgGet(args, "status", PyStr(""))
        v == StatusTable[status_input]
        st1 == Put(state, "status", v.result)
        log1 == Updated(st1, calls, "claim_status", v.result)
        st2 == Put(st1, "correcting", FALSE)
    IN  IF v.exc # "" THEN Outcome(state, calls, Exception(v.exc), node)
        ELSE IF v.is_valid
        THEN IF Correcting(st1)
             THEN Outcome(st2, log1, StatusResult(v.result),
                      verify_information_node(st2.claim_number, st2.submission_date,
                                              v.result, st2.amount))
             ELSE Outcome(st1, log1, StatusResult(v.result), ask_amount_node)
        ELSE Outcome(state, calls,
                 FlowResultError("I'm sorry, " \o v.result
                     \o ". Please provide one of these statuses."),
                 ask_amount_node)

\* handle_status dropping the amount when it stores a corrected status
handle_status_resets_amount(args) ==
    LET status_input == ArgGet(args, "status", PyStr(""))
        v == StatusTable[status_input]
        st1 == Put(state, "status", v.result)
        log1 == Updated(st1, calls, "claim_status", v.result)
        st2 == Put(Put(st1, "correcting", FALSE), "amount", "")
    IN  IF v.exc # "" THEN Outcome(state, calls, Exception(v.exc), node)
        ELSE IF v.is_valid
        THEN IF Correcting(st1)
             THEN Outcome(st2, log1, StatusResult(v.result),
                      verify_information_node(st2.claim_number, st2.submission_date,
                                              v.result, st2.amount))
             ELSE Outcome(st1, log1, StatusResult(v.result), ask_amount_node)
        ELSE Outcome(state, calls,
                 FlowResultError("I'm sorry, " \o v.result
                     \o ". Please provide one of these statuses."),
                 ask_status_node)

handle_status(args) ==
    LET status_input == ArgGet(args, "status", PyStr(""))
        v == StatusTable[status_input]
        st1 == Put(state, "status", v.result)
        log1 == Updated(st1, calls, "claim_status", v.result)
        st2 == Put(st1, "correcting", FALSE)
    IN  IF v.exc # "" THEN Outcome(state, calls, Exception(v.exc), node)
        ELSE IF v.is_valid
        THEN IF Correcting(st1)
             THEN IF {"claim_number", "submission_date", "amount"} \subseteq DOMAIN st2
                  THEN Outcome(st2, log1, StatusResult(v.result),
                           verify_information_node(st2.claim_number, st2.submission_date,
                                                   v.result, st2.amount))
                  ELSE Outcome(st2, log1, Exception("KeyError"), node)
             ELSE Outcome(st1, log1, StatusResult(v.result), ask_amount_node)
        ELSE Outcome(state, calls,
                 FlowResultError("I'm sorry, " \o v.result
                     \o ". Please provide one of these statuses."),
                 ask_status_node)

\* handle_amount building the Verify node from the local value without storing it
handle_amount_not_stored(args) ==
    LET amount_input == ArgGet(args, "amount", PyStr(""))
        v == AmountTable[amount_input]
        amount == v.result
        log1 == Updated(state, calls, "claim_amount", With(With(Remove(amount, "$"), LAMBDA a : Remove(a, ",")), float))
        st2 == IF Correcting(state) THEN Put(state, "correcting", FALSE) ELSE state
    IN  IF v.exc # "" THEN Outcome(state, calls, Exception(v.exc), node)
        ELSE IF v.is_valid
        THEN Outcome(st2, log1, AmountResult(amount),
                 verify_information_node(st2.claim_number, st2.submission_date,
                                         st2.status, amount))
        ELSE Outcome(state, calls,
                 FlowResultError("I'm sorry, " \o amount
                     \o ". Please provide the claim amount as a number."),
                 ask_amount_node)

\* handle_amount clearing correcting before it knows whether the amount is valid
handle_amount_clears_first(args) ==
    LET amount_input == ArgGet(args, "amount", PyStr(""))
        v == AmountTable[amount_input]
        amount == v.result
        st0 == IF Correcting(state) THEN Put(state, "correcting", FALSE) ELSE state
        st1 == Put(st0, "amount", amount)
        log1 == Updated(st1, calls, "claim_amount", With(With(Remove(amount, "$"), LAMBDA a : Remove(a, ",")), float))
    IN  IF v.exc # "" THEN Outcome(state, calls, Exception(v.exc), node)
        ELSE IF v.is_valid
        THEN Outcome(st1, log1, AmountResult(amount),
                 verify_information_node(st1.claim_number, st1.submission_date,
                                         st1.status, amount))
        ELSE Outcome(st0, calls,
                 FlowResultError("I'm sorry, " \o amount
                     \o ". Please provide the claim amount as a number."),
                 ask_amount_node)

handle_amount(args) ==
    LET amount_input == ArgGet(args, "amount", PyStr(""))
        v == AmountTable[amount_input]
        amount == v.result
        st1 == Put(state, "amount", amount)
        numeric_amount == With(With(Remove(amount, "$"), LAMBDA a : Remove(a, ",")), float)
        log1 == Updated(st1, calls, "claim_amount", numeric_amount)
        st2 == IF Correcting(st1) THEN Put(st1, "correcting", FALSE) ELSE st1
    IN  IF v.exc # "" THEN Outcome(state, calls, Exception(v.exc), node)
        ELSE IF v.is_valid
        THEN IF {"claim_number", "submission_date", "status"} \subseteq DOMAIN st2
             THEN Outcome(st2, log1, AmountResult(amount),
                      verify_information_node(st2.claim_number, st2.submission_date,
                                              st2.status, amount))
             ELSE Outcome(st2, log1, Exception("KeyError"), node)
        ELSE Outcome(state, calls,
                 FlowResultError("I'm sorry, " \o amount
                     \o ". Please provide the claim amount as a number."),
                 ask_amount_node)

AffirmativeTokens == {"yes", "true", "correct", "right", "yep", "yeah"}

\* handle_verification going to the End node without marking the record done
handle_verification_unrecorded(args) ==
    LET confirmed == ArgGet(args, "confirmed", PyBool(FALSE))
    IN  IF Truthy(confirmed) \/ Lower(Str(confirmed)) \in AffirmativeTokens
        THEN Outcome(state, calls, VerificationResult(TRUE), end_node)
        ELSE Outcome(state, calls, VerificationResult(FALSE), correction_node)

\* handle_verification marking the record done whatever the answer
handle_verification_always_done(args) ==
    LET confirmed == ArgGet(args, "confirmed", PyBool(FALSE))
    IN  IF Truthy(confirmed) \/ Lower(Str(confirmed)) \in AffirmativeTokens
        THEN Outcome(state, Updated(state, calls, "state", "done"),
                 VerificationResult(TRUE), end_node)
        ELSE Outcome(state, Updated(state, calls, "state", "done"),
                 VerificationResult(FALSE), correction_node)

\* handle_verification sending a confirmed read-back to the Correction node as well
handle_verification_never_ends(args) ==
    LET confirmed == ArgGet(args, "confirmed", PyBool(FALSE))
    IN  IF Truthy(confirmed) \/ Lower(Str(confirmed)) \in AffirmativeTokens
        THEN Outcome(state, Updated(state, calls, "state", "done"),
                 VerificationResult(TRUE), correction_node)
        ELSE Outcome(state, calls, VerificationResult(FALSE), correction_node)

handle_verification(args) ==
    LET confirmed == ArgGet(args, "confirmed", PyBool(FALSE))
    IN  IF Truthy(confirmed) \/ Lower(Str(confirmed)) \in AffirmativeTokens
        THEN Outcome(state, Updated(state, calls, "state", "done"),
                 VerificationResult(TRUE), end_node)
        ELSE Outcome(state, calls, VerificationResult(FALSE), correction_node)

\* handle_correction trying the amount keywords before the date keywords
handle_correction_amount_first(args) ==
    LET field == ArgGet(args, "field_to_correct", PyStr(""))
        field_to_correct == Lower(field.v)
        st1 == Put(state, "correcting", TRUE)
    IN  IF field.t # "str" THEN Outcome(state, calls, Exception("AttributeError"), node)
        ELSE IF \/ Contains("amount", field_to_correct)
                \/ Contains("money", field_to_correct)
                \/ Contains("dollar", field_to_correct)
        THEN Outcome(st1, calls, FlowResult, ask_amount_node)
        ELSE IF Contains("date", field_to_correct) \/ Contains("submit", field_to_correct)
        THEN Outcome(st1, calls, FlowResult, ask_submission_date_node)
        ELSE IF Contains("status", field_to_correct)
        THEN Outcome(st1, calls, FlowResult, ask_status_node)
        ELSE Outcome(st1, calls, FlowResultError("I didn't catch which field you'd like to correct."),
                 correction_node)

\* handle_correction letting the last group that matches decide
handle_correction_last_match(args) ==
    LET field == ArgGet(args, "field_to_correct", PyStr(""))
        field_to_correct == Lower(field.v)
        st1 == Put(state, "correcting", TRUE)
    IN  IF field.t # "str" THEN Outcome(state, calls, Exception("AttributeError"), node)
        ELSE IF \/ Contains("amount", field_to_correct)
                \/ Contains("money", field_to_correct)
                \/ Contains("dollar", field_to_correct)
        THEN Outcome(st1, calls, FlowResult, ask_amount_node)
        ELSE IF Contains("status", field_to_correct)
        THEN Outcome(st1, calls, FlowResult, ask_status_node)
        ELSE IF Contains("date", field_to_correct) \/ Contains("submit", field_to_correct)
        THEN Outcome(st1, calls, FlowResult, ask_submission_date_node)
        ELSE Outcome(st1, calls,
                 FlowResultError("I didn't catch which field you'd like to correct. Please specify the submission date, status, or amount."),
                 correction_node)

handle_correction(args) ==
    LET field == ArgGet(args, "field_to_correct", PyStr(""))
        field_to_correct == Lower(field.v)
        st1 == Put(state, "correcting", TRUE)
    IN  IF field.t # "str" THEN Outcome(state, calls, Exception("AttributeError"), node)
        ELSE IF Contains("date", field_to_correct) \/ Contains("submit", field_to_correct)
        THEN Outcome(st1, calls, FlowResult, ask_submission_date_node)
        ELSE IF Contains("status", field_to_correct)
        THEN Outcome(st1, calls, FlowResult, ask_status_node)
        ELSE IF \/ Contains("amount", field_to_correct)
                \/ Contains("money", field_to_correct)
                \/ Contains("dollar", field_to_correct)
        THEN Outcome(st1, calls, FlowResult, ask_amount_node)
        ELSE Outcome(st1, calls,
                 FlowResultError("I didn't catch which field you'd like to correct. Please specify the submission date, status, or amount."),
                 correction_node)

(***************************************************************************)
(* The runtime: it calls a function the current node declares, and moves   *)
(* to the node the handler returns.                                        *)
(***************************************************************************)
\* the runtime only calls a function the current node declares
Offered(fn) ==
    /\ fn \in node.functions
    /\ Len(calls) < MaxCalls

\* the call of fn with args, whose handler came back with out
Invoke(fn, args, out, ok) ==
    /\ call' = [fn |-> fn, args |-> args]
    /\ update_ret' = IF IssuedUpdate(out.calls) THEN PyBool(ok) ELSE PyNone
    /\ state' = out.state
    /\ calls' = out.calls
    /\ result' = out.result
    /\ node' = out.node

ClaimFoundInSystem ==
    /\ Offered("claim_found_in_system")
    /\ \E generated \in generate_claim_number :
         \E created \in create_conversation_record(generated) :
           \E ok \in update_conversation_record(created, "state") :
             \E out \in {handle_greeting(NoArgs, generated, created)} :
               Invoke("claim_found_in_system", NoArgs, out, ok)

CaptureSubmissionDate ==
    /\ Offered("capture_submission_date")
    /\ \E args \in DateArgs : \E ok \in update_conversation_record(state, "claim_date") :
         \E out \in {handle_submission_date(args)} :
           Invoke("capture_submission_date", args, out, ok)

CaptureStatus ==
    /\ Offered("capture_status")
    /\ \E args \in StatusArgs : \E ok \in update_conversation_record(state, "claim_status") :
         \E out \in {handle_status(args)} :
           Invoke("capture_status", args, out, ok)

CaptureAmount ==
    /\ Offered("capture_amount")
    /\ \E args \in AmountArgs : \E ok \in update_conversation_record(state, "claim_amount") :
         \E out \in {handle_amount(args)} :
           Invoke("capture_amount", args, out, ok)

VerifyInformation ==
    /\ Offered("verify_information")
    /\ \E args \in VerificationArgs : \E ok \in update_conversation_record(state, "state") :
         \E out \in {handle_verification(args)} :
           Invoke("verify_information", args, out, ok)

IdentifyCorrection ==
    /\ Offered("identify_correction")
    /\ \E args \in CorrectionArgs :
         \E out \in {handle_correction(args)} :
           Invoke("identify_correction", args, out, TRUE)

\* the conversation as the pipeline opens it: initialize(create_initial_node())
ConversationInit ==
    /\ node \in create_initial_node
    /\ state = EmptyDict
    /\ result = [type |-> "none"]
    /\ call = [fn |-> "", args |-> NoArgs]
    /\ calls = << >>
    /\ update_ret = PyNone

(***************************************************************************)
(* The latency observer.  Times are readings of time.time(), in ticks; the *)
(* values of the metrics are in ticks too.                                 *)
(***************************************************************************)
\* ServiceMetrics()
ServiceMetrics == [processing_times |-> << >>, ttfb_times |-> << >>]

add_processing_time(m, processing_time) ==
    IF processing_time > 0
    THEN [m EXCEPT !.processing_times = Append(@, processing_time)]
    ELSE m

add_ttfb(m, ttfb) ==
    IF ttfb > 0 THEN [m EXCEPT !.ttfb_times = Append(@, ttfb)] ELSE m

\* LatencyMetricsCollector(stt_provider, llm_provider, tts_provider)
LatencyMetricsCollector ==
    [latencies |-> << >>, stt_metrics |-> ServiceMetrics,
     llm_metrics |-> ServiceMetrics, tts_metrics |-> ServiceMetrics]

add_latency(c, latency) == [c EXCEPT !.latencies = Append(@, latency)]

\* the service a processor's metrics are filed under, "" when under none
ServiceOf(processor) ==
    IF Contains("STT", processor) \/ Contains("Deepgram", processor) THEN "stt_metrics"
    ELSE IF Contains("LLM", processor) \/ Contains("OpenAI", processor) THEN "llm_metrics"
    ELSE IF Contains("TTS", processor) \/ Contains("Cartesia", processor) THEN "tts_metrics"
    ELSE ""

\* the body of the loop of add_metrics_from_frame, for one item of the frame
add_metrics_data(c, data) ==
    With(ServiceOf(data.processor), LAMBDA service :
      IF service = "" THEN c
      ELSE IF data.class = "ProcessingMetricsData"
      THEN [c EXCEPT ![service] = add_processing_time(@, data.value)]
      ELSE IF data.class = "TTFBMetricsData"
      THEN [c EXCEPT ![service] = add_ttfb(@, data.value)]
      ELSE c)

RECURSIVE add_metrics_from(_, _, _)
add_metrics_from(c, data, i) ==
    IF i > Len(data) THEN c
    ELSE add_metrics_from(add_metrics_data(c, data[i]), data, i + 1)

add_metrics_from_frame(c, metrics_frame) == add_metrics_from(c, metrics_frame.data, 1)

\* CustomLatencyObserver(metrics_collector)
CustomLatencyObserver ==
    [metrics_collector |-> LatencyMetricsCollector, user_stop_time |-> PyNone]

\* on_push_frame leaving the user-stop time in place after it took a sample
on_push_frame_keeps_pending(obs, frame, time) ==
    IF frame.type = "UserStoppedSpeakingFrame"
    THEN [obs EXCEPT !.user_stop_time = PyInt(time)]
    ELSE IF frame.type = "BotStartedSpeakingFrame"
    THEN IF Truthy(obs.user_stop_time)
         THEN [obs EXCEPT !.metrics_collector = add_latency(@, time - obs.user_stop_time.v)]
         ELSE obs
    ELSE IF frame.type = "MetricsFrame"
    THEN [obs EXCEPT !.metrics_collector = add_metrics_from_frame(@, frame)]
    ELSE obs

\* on_push_frame, time being what time.time() reads during the call
on_push_frame(obs, frame, time) ==
    IF frame.type = "UserStoppedSpeakingFrame"
    THEN [obs EXCEPT !.user_stop_time = PyInt(time)]
    ELSE IF frame.type = "BotStartedSpeakingFrame"
    THEN IF Truthy(obs.user_stop_time)
         THEN [obs EXCEPT !.metrics_collector = add_latency(@, time - obs.user_stop_time.v),
                          !.user_stop_time = PyNone]
         ELSE obs
    ELSE IF frame.type = "MetricsFrame"
    THEN [obs EXCEPT !.metrics_collector = add_metrics_from_frame(@, frame)]
    ELSE obs

\* the frames the pipeline pushes: the two speaking frames, frames of
\* metrics, and a frame of another type
MetricsData(class, processor, value) ==
    [class |-> class, processor |-> processor, value |-> value]

Frame(type, data) == [type |-> type, data |-> data]

Frames ==
    {Frame("UserStoppedSpeakingFrame", << >>),
     Frame("BotStartedSpeakingFrame", << >>),
     Frame("TextFrame", << >>),
     Frame("MetricsFrame",
           << MetricsData("ProcessingMetricsData", "DeepgramSTTService#0", 2),
              MetricsData("TTFBMetricsData", "OpenAILLMService#0", 0) >>),
     Frame("MetricsFrame",
           << MetricsData("TTFBMetricsData", "CartesiaTTSService#0", 1),
              MetricsData("ProcessingMetricsData", "SileroVAD#0", 3),
              MetricsData("LLMUsageMetricsData", "OpenAILLMService#0", 5) >>)}

\* the readings of the clock, and the number of frames followed
MaxClock == 2
MaxFrames == 4

Clock == 1..MaxClock

\* the pipeline pushes a frame: frames keeps each frame pushed with the
\* reading of the clock at its push
OnPushFrame ==
    /\ Len(frames) < MaxFrames
    /\ \E frame \in Frames : \E time \in Clock :
         /\ observer' = on_push_frame(observer, frame, time)
         /\ frames' = Append(frames, [frame |-> frame, time |-> time])
    /\ UNCHANGED << node, state, result, call, calls, update_ret, other, probe, tasks >>

\* no two handlers running side by side
NoTasks == [run |-> << >>]

\* the observer as it is built, no frame pushed, one call at a time
Aside ==
    /\ observer = CustomLatencyObserver
    /\ frames = << >>
    /\ tasks = NoTasks

NoTwin == [phase |-> "off"]
NoProbe == [fn |-> ""]

\* one conversation on its own
Alone == UNCHANGED << other, probe, observer, frames, tasks >>

Init ==
    /\ ConversationInit
    /\ other = NoTwin
    /\ probe = NoProbe
    /\ Aside

Next ==
    \/ ClaimFoundInSystem /\ Alone
    \/ CaptureSubmissionDate /\ Alone
    \/ CaptureStatus /\ Alone
    \/ CaptureAmount /\ Alone
    \/ VerifyInformation /\ Alone
    \/ IdentifyCorrection /\ Alone

Spec == Init /\ [][Next]_vars

(***************************************************************************)
(* Two conversations fed the same calls.  Both open on the same node.  The *)
(* first is served a call, with any outcome of its persistence requests;   *)
(* it is set aside and the second is served the same function with the     *)
(* same arguments and the same random draw, its record creation failing.   *)
(* other.phase tells whose turn it is: "lead" the first conversation is    *)
(* current and about to be called, "swap" and "back" the two exchange      *)
(* places, "follow" the second is current and about to be called.          *)
(***************************************************************************)
Conversation(phase) ==
    [phase |-> phase, node |-> node, state |-> state, result |-> result,
     call |-> call, calls |-> calls, update_ret |-> update_ret]

\* one function call of the runtime
Handle ==
    \/ ClaimFoundInSystem
    \/ CaptureSubmissionDate
    \/ CaptureStatus
    \/ CaptureAmount
    \/ VerifyInformation
    \/ IdentifyCorrection

\* the pair is followed until the first conversation has issued this many
\* persistence requests
MaxTwinCalls == 6

Lead ==
    /\ other.phase = "lead"
    /\ Len(calls) < MaxTwinCalls
    /\ Handle
    /\ other' = [other EXCEPT !.phase = "swap"]
    /\ UNCHANGED << probe, observer, frames, tasks >>

Swap ==
    /\ other.phase \in {"swap", "back"}
    /\ node' = other.node
    /\ state' = other.state
    /\ result' = other.result
    /\ call' = other.call
    /\ calls' = other.calls
    /\ update_ret' = other.update_ret
    /\ other' = Conversation(IF other.phase = "swap" THEN "follow" ELSE "lead")
    /\ UNCHANGED << probe, observer, frames, tasks >>

Follow ==
    /\ other.phase = "follow"
    /\ Handle
    /\ call' = other.call
    /\ ~Has(state', "conversation_id")
    /\ Has(state', "claim_number") => state'.claim_number = other.state.claim_number
    /\ other' = [other EXCEPT !.phase = "back"]
    /\ UNCHANGED << probe, observer, frames, tasks >>

TwinInit ==
    /\ ConversationInit
    /\ other = Conversation("lead")
    /\ probe = NoProbe
    /\ Aside

TwinNext ==
    \/ Lead
    \/ Swap
    \/ Follow

TwinSpec == TwinInit /\ [][TwinNext]_vars

(***************************************************************************)
(* The validators and the generator called on their own.  A probe is one   *)
(* call: the function, the value passed and, once the call is done, what   *)
(* it gave.  The values passed are utterances with and without padding,    *)
(* and values that are not strings.                                        *)
(***************************************************************************)
Pads == {"", " "}

Padded(words) == {PyStr(l \o w \o r) : l \in Pads, w \in words, r \in Pads}

NonStrings == {PyInt(5), PyInt(0), PyBool(TRUE), PyNone}

StatusWords ==
    {"pend", "Pending", "APPROVED", "denied", "reject", "in review", "review",
     "Under Investigation", "investigat", "closed", "appeal", "xyz", "e", "in",
     "It is approved now", "denied and closed", "open", "n/a", "on hold", ""}

AmountWords ==
    {"$1,234.50", "1234.5", "1,234.50", "$ 1,234.5", "-5", "0", "0.00", "500", "$500",
     "banana", "1e3", ".5", "5.", "0.004", "1,000,000", "12.3449", "12.346", "nan",
     "inf", "-inf", "Infinity", "1_000", "1 000", "$", "+7", "1.2.3", "five", "-0.01", ""}

DateWords ==
    {"January 15th 2024", "01/15/2024", "2024-01-15", "it was 03/04/2023",
     "banana", "2/30/2024", ""}

StatusProbes == Padded(StatusWords) \cup NonStrings
AmountProbes == Padded(AmountWords) \cup NonStrings
DateProbes == Padded(DateWords) \cup NonStrings

Probe(fn, input) == [fn |-> fn, input |-> input, done |-> FALSE, output |-> PyNone]

Probes ==
    {Probe("validate_date", x) : x \in DateProbes}
      \cup {Probe("validate_status", x) : x \in StatusProbes}
      \cup {Probe("validate_amount", x) : x \in AmountProbes}
      \cup {Probe("generate_claim_number", PyNone)}

\* the call returns (or raises): the probe holds what it gave
Done(output) ==
    /\ ~probe.done
    /\ probe' = [probe EXCEPT !.done = TRUE, !.output = output]
    /\ UNCHANGED << node, state, result, call, calls, update_ret, other >>
    /\ UNCHANGED << observer, frames, tasks >>

ValidateDate ==
    /\ probe.fn = "validate_date"
    /\ \E output \in {validate_date(probe.input)} : Done(output)

ValidateStatus ==
    /\ probe.fn = "validate_status"
    /\ \E output \in {validate_status(probe.input)} : Done(output)

ValidateAmount ==
    /\ probe.fn = "validate_amount"
    /\ \E output \in {validate_amount(probe.input)} : Done(output)

GenerateClaimNumber ==
    /\ probe.fn = "generate_claim_number"
    /\ \E output \in generate_claim_number : Done(output)

ValidatorInit ==
    /\ ConversationInit
    /\ other = NoTwin
    /\ probe \in Probes
    /\ Aside

ValidatorNext ==
    \/ ValidateDate
    \/ ValidateStatus
    \/ ValidateAmount
    \/ GenerateClaimNumber

ValidatorSpec == ValidatorInit /\ [][ValidatorNext]_vars

(***************************************************************************)
(* Vocabulary of the properties.                                           *)
(***************************************************************************)
AskingNodes == {"AskSubmissionDate", "AskStatus", "AskAmount"}
CaptureFunctions == {"capture_submission_date", "capture_status", "capture_amount"}
Slots == {"submission_date", "status", "amount"}

\* the dict holds the key correcting with the value b
CorrectingIs(b, st) == Has(st, "correcting") /\ st.correcting = b

\* the slot a capture function fills
SlotOf(fn) ==
    CASE fn = "capture_submission_date" -> "submission_date"
      [] fn = "capture_status" -> "status"
      [] fn = "capture_amount" -> "amount"

\* what the validator of a capture call makes of the call's argument
Validation(c) ==
    CASE c.fn = "capture_submission_date" -> DateTable[ArgGet(c.args, "date", PyStr(""))]
      [] c.fn = "capture_status" -> StatusTable[ArgGet(c.args, "status", PyStr(""))]
      [] c.fn = "capture_amount" -> AmountTable[ArgGet(c.args, "amount", PyStr(""))]

\* the call is a capture whose argument validates / fails validation
Accepted(c) ==
    c.fn \in CaptureFunctions /\ Validation(c).exc = "" /\ Validation(c).is_valid
Rejected(c) ==
    c.fn \in CaptureFunctions /\ Validation(c).exc = "" /\ ~Validation(c).is_valid

\* the field name of an identify_correction call, lower-cased ("" when missing)
FieldName(c) == Lower(Str(ArgGet(c.args, "field_to_correct", PyStr(""))))
IsFieldCall(c) ==
    c.fn = "identify_correction" /\ ArgGet(c.args, "field_to_correct", PyStr("")).t = "str"

NamesDate(f) == Contains("date", f) \/ Contains("submit", f)
NamesStatus(f) == Contains("status", f)
NamesAmount(f) == Contains("amount", f) \/ Contains("money", f) \/ Contains("dollar", f)

(***************************************************************************)
(* C1.  The Verify node is the current node only if submission_date,       *)
(* status and amount are all present in the conversation state.            *)
(***************************************************************************)
C1_VerifyOnlyWithAllSlots ==
    node.name = "Verify" => Slots \subseteq DOMAIN state

C1_Witness ==
    /\ node.name = "Verify"
    /\ call.fn = "capture_amount"
    /\ Slots \subseteq DOMAIN state

(***************************************************************************)
(* C2.  Correction loop: at a slot-asking node entered with correcting     *)
(* true, a successful capture goes directly to Verify, with the slot       *)
(* holding the newly captured value and correcting reset to false.         *)
(***************************************************************************)
C2_CorrectionReturnsToVerify ==
    [][ (node.name \in AskingNodes /\ CorrectingIs(TRUE, state) /\ Accepted(call'))
          => /\ node'.name = "Verify"
             /\ Has(state', SlotOf(call'.fn))
             /\ state'[SlotOf(call'.fn)] = Validation(call').result
             /\ CorrectingIs(FALSE, state') ]_vars

C2_Witness ==
    /\ node.name = "Verify"
    /\ call.fn = "capture_status"
    /\ CorrectingIs(FALSE, state)
    /\ state.status = "Under Investigation"

(***************************************************************************)
(* C3.  An invalid retry preserves correction intent: at a slot-asking     *)
(* node with correcting true a value that fails validation leaves the node *)
(* and correcting as they are, and correcting is cleared only by a         *)
(* successful capture, which goes to Verify.                               *)
(***************************************************************************)
C3_InvalidRetryKeepsCorrecting ==
    [][ (node.name \in AskingNodes /\ CorrectingIs(TRUE, state))
          => /\ Rejected(call') => (node' = node /\ CorrectingIs(TRUE, state'))
             /\ ~CorrectingIs(TRUE, state') => (Accepted(call') /\ node'.name = "Verify") ]_vars

C3_Witness ==
    /\ node.name = "AskAmount"
    /\ CorrectingIs(TRUE, state)
    /\ call.fn = "capture_amount"
    /\ HasError(result)

(***************************************************************************)
(* C4.  Forward path: with correcting false, Start leads to                *)
(* AskSubmissionDate, a successful date capture to AskStatus, a successful *)
(* status capture to AskAmount; a successful amount capture leads to       *)
(* Verify whatever correcting is; boolean true at Verify leads to End; the *)
(* captured slot holds the validator's canonical value ("2024-01-15",      *)
(* "Approved", "$500.00" for the inputs of the scenario).                  *)
(***************************************************************************)
C4_ForwardPath ==
    [][ /\ (node.name = "Start" /\ call'.fn = "claim_found_in_system")
              => node'.name = "AskSubmissionDate"
        /\ (node.name = "AskSubmissionDate" /\ ~CorrectingIs(TRUE, state) /\ Accepted(call'))
              => node'.name = "AskStatus"
        /\ (node.name = "AskStatus" /\ ~CorrectingIs(TRUE, state) /\ Accepted(call'))
              => node'.name = "AskAmount"
        /\ (node.name = "AskAmount" /\ Accepted(call'))
              => node'.name = "Verify"
        /\ (node.name = "Verify" /\ call'.args = [confirmed |-> PyBool(TRUE)])
              => node'.name = "End"
        /\ (node.name \in AskingNodes /\ Accepted(call'))
              => /\ Has(state', SlotOf(call'.fn))
                 /\ state'[SlotOf(call'.fn)] = Validation(call').result
        /\ (node.name = "AskSubmissionDate" /\ call'.args = [date |-> PyStr("January 15th 2024")])
              => state'.submission_date = "2024-01-15"
        /\ (node.name = "AskStatus" /\ call'.args = [status |-> PyStr("approved")])
              => state'.status = "Approved"
        /\ (node.name = "AskAmount" /\ call'.args = [amount |-> PyStr("$500")])
              => state'.amount = "$500.00" ]_vars

C4_Witness ==
    /\ node.name = "End"
    /\ ~Has(state, "correcting")
    /\ call.args = [confirmed |-> PyBool(TRUE)]
    /\ state.submission_date = "2024-01-15"
    /\ state.status = "Approved"
    /\ state.amount = "$500.00"

(***************************************************************************)
(* C5.  On input that fails validation at AskSubmissionDate, AskStatus or  *)
(* AskAmount the next node is the same asking node, the result carries an  *)
(* error message and the conversation state is exactly what it was.        *)
(***************************************************************************)
C5_InvalidInputStays ==
    [][ (node.name \in AskingNodes /\ Rejected(call'))
          => /\ node' = node
             /\ HasError(result')
             /\ state' = state ]_vars

C5_Witness ==
    /\ node.name = "AskAmount"
    /\ call = [fn |-> "capture_amount", args |-> [amount |-> PyStr("banana")]]
    /\ HasError(result)
    /\ CorrectingIs(TRUE, state)
    /\ Has(state, "amount")

(***************************************************************************)
(* C6.  At the Correction node a field name that matches no keyword group  *)
(* yields an error result that re-prompts the Correction node and leaves   *)
(* every field of the conversation state, correcting included, unchanged.  *)
(***************************************************************************)
C6_UnrecognizedFieldChangesNothing ==
    [][ (/\ node.name = "Correction"
         /\ IsFieldCall(call')
         /\ ~NamesDate(FieldName(call'))
         /\ ~NamesStatus(FieldName(call'))
         /\ ~NamesAmount(FieldName(call')))
          => /\ node' = node
             /\ HasError(result')
             /\ state' = state ]_vars

(***************************************************************************)
(* C7.  In every reachable state where correcting is true the current node *)
(* is AskSubmissionDate, AskStatus or AskAmount.                           *)
(***************************************************************************)
C7_CorrectingOnlyAtAskingNodes ==
    CorrectingIs(TRUE, state) => node.name \in AskingNodes

(***************************************************************************)
(* C8.  At Verify the call is confirmed (next node End, confirmed = true)  *)
(* if and only if the argument is boolean true or its string form, lower-  *)
(* cased, is an affirmative token; every other argument, a missing one     *)
(* included, is a decline (next node Correction, confirmed = false).       *)
(***************************************************************************)
IsAffirmative(x) == x = PyBool(TRUE) \/ Lower(Str(x)) \in AffirmativeTokens

C8_ConfirmationMatching ==
    [][ (node.name = "Verify" /\ call'.fn = "verify_information")
          => IF IsAffirmative(ArgGet(call'.args, "confirmed", PyBool(FALSE)))
             THEN node'.name = "End" /\ result' = VerificationResult(TRUE)
             ELSE node'.name = "Correction" /\ result' = VerificationResult(FALSE) ]_vars

(***************************************************************************)
(* C9.  Keyword routing at Correction.  As claimed: a field name           *)
(* containing "date" or "submit" routes to AskSubmissionDate, one          *)
(* containing "status" to AskStatus, one containing "amount", "money" or   *)
(* "dollar" to AskAmount, and correcting is true after a routed call.      *)
(***************************************************************************)
C9_KeywordRoutingAsClaimed ==
    [][ (node.name = "Correction" /\ IsFieldCall(call'))
          => /\ NamesDate(FieldName(call'))
                  => (node'.name = "AskSubmissionDate" /\ CorrectingIs(TRUE, state'))
             /\ NamesStatus(FieldName(call'))
                  => (node'.name = "AskStatus" /\ CorrectingIs(TRUE, state'))
             /\ NamesAmount(FieldName(call'))
                  => (node'.name = "AskAmount" /\ CorrectingIs(TRUE, state')) ]_vars

(***************************************************************************)
(* C9, amended.  A field name containing "date" or "submit" routes to      *)
(* AskSubmissionDate; one containing "status" and neither "date" nor       *)
(* "submit" routes to AskStatus; one containing "amount", "money" or       *)
(* "dollar" and none of "date", "submit", "status" routes to AskAmount;    *)
(* correcting is true after a routed call.                                 *)
(***************************************************************************)
C9_KeywordRouting ==
    [][ (node.name = "Correction" /\ IsFieldCall(call'))
          => /\ NamesDate(FieldName(call'))
                  => (node'.name = "AskSubmissionDate" /\ CorrectingIs(TRUE, state'))
             /\ (NamesStatus(FieldName(call')) /\ ~NamesDate(FieldName(call')))
                  => (node'.name = "AskStatus" /\ CorrectingIs(TRUE, state'))
             /\ (/\ NamesAmount(FieldName(call'))
                 /\ ~NamesDate(FieldName(call'))
                 /\ ~NamesStatus(FieldName(call')))
                  => (node'.name = "AskAmount" /\ CorrectingIs(TRUE, state')) ]_vars

C9_Witness ==
    /\ node.name = "AskAmount"
    /\ call = [fn |-> "identify_correction", args |-> [field_to_correct |-> PyStr("the dollar value")]]
    /\ CorrectingIs(TRUE, state)

(***************************************************************************)
(* C10.  End is terminal: it declares no function, once the current node   *)
(* is End the node, the slots and correcting never change again, and End   *)
(* is entered only from Verify by a call that returns confirmed = true.    *)
(***************************************************************************)
C10_EndIsTerminal ==
    [][ /\ node.name = "End" => (node.functions = {} /\ node' = node /\ state' = state)
        /\ (node.name # "End" /\ node'.name = "End")
              => /\ node.name = "Verify"
                 /\ call'.fn = "verify_information"
                 /\ result' = VerificationResult(TRUE) ]_vars

C10_Witness ==
    /\ node.name = "End"
    /\ call.fn = "verify_information"
    /\ result = VerificationResult(TRUE)

(***************************************************************************)
(* Vocabulary of the persistence properties.                               *)
(***************************************************************************)
\* the positions of the log that hold a request of the kind op
Requests(op, log) == {i \in 1..Len(log) : log[i].op = op}

\* the column an accepted capture writes
FieldKey(fn) ==
    CASE fn = "capture_submission_date" -> "claim_date"
      [] fn = "capture_status" -> "claim_status"
      [] fn = "capture_amount" -> "claim_amount"

\* the log grew by exactly one request: an update of record id setting key
OneUpdate(log, grown, id, key) ==
    /\ Len(grown) = Len(log) + 1
    /\ SubSeq(grown, 1, Len(log)) = log
    /\ grown[Len(grown)].op = "update"
    /\ grown[Len(grown)].id = id
    /\ grown[Len(grown)].key = key

(***************************************************************************)
(* C11.  create_conversation_record is called once per conversation, by    *)
(* the claim acknowledgment at Start: every acknowledgment adds one insert *)
(* request, no call of another function and no call at another node adds   *)
(* one, and the log never holds more than one, whatever correction loops   *)
(* and invalid retries follow.                                             *)
(***************************************************************************)
C11_CreateOnce ==
    [][ /\ Cardinality(Requests("insert", calls')) <= 1
        /\ call'.fn = "claim_found_in_system"
              => Cardinality(Requests("insert", calls')) = Cardinality(Requests("insert", calls)) + 1
        /\ Requests("insert", calls') # Requests("insert", calls)
              => (call'.fn = "claim_found_in_system" /\ node.name = "Start") ]_vars

C11_Witness ==
    /\ node.name = "Verify"
    /\ call.fn = "capture_status"
    /\ Cardinality(Requests("update", calls)) >= 4
    /\ Cardinality(Requests("insert", calls)) = 1
    /\ calls[1].op = "insert"

(***************************************************************************)
(* C12.  In a conversation that holds a record id, a capture whose value   *)
(* validates adds exactly one update of that record, setting claim_date,   *)
(* claim_status or claim_amount (the date and the status to the value      *)
(* stored in the slot); a call at Verify taken as a confirmation adds      *)
(* exactly one update setting state to "done"; a capture whose value fails *)
(* validation, a call at Verify taken as a decline and a call at           *)
(* Correction add nothing.                                                 *)
(***************************************************************************)
C12_UpdatePerCapture ==
    [][ Has(state, "conversation_id")
          => /\ Accepted(call')
                  => /\ OneUpdate(calls, calls', state.conversation_id, FieldKey(call'.fn))
                     /\ call'.fn # "capture_amount"
                          => calls'[Len(calls')].value = state'[SlotOf(call'.fn)]
             /\ (call'.fn = "verify_information" /\ result' = VerificationResult(TRUE))
                  => /\ OneUpdate(calls, calls', state.conversation_id, "state")
                     /\ calls'[Len(calls')].value = "done"
             /\ (\/ Rejected(call')
                 \/ (call'.fn = "verify_information" /\ result' = VerificationResult(FALSE))
                 \/ call'.fn = "identify_correction")
                  => calls' = calls ]_vars

C12_Witness ==
    /\ node.name = "End"
    /\ Len(calls) = 7
    /\ calls[7] = UpdateCall(state.conversation_id, "state", "done")
    /\ calls[6].key = "claim_amount"
    /\ calls[5].key = "claim_amount"

(***************************************************************************)
(* Vocabulary of the comparisons.                                          *)
(***************************************************************************)
\* the insert of the conversation with this log returned no id
CreationFailed(log) == log # << >> /\ log[1].op = "insert" /\ log[1].ret = PyNone

\* what the runtime and the user see of a conversation: the node, the
\* result of the last call, the three slots and correcting
FlowView(nd, res, st) ==
    [node |-> nd,
     result |-> res,
     slots |-> [k \in Slots \cap DOMAIN st |-> st[k]],
     correcting |-> IF Has(st, "correcting") THEN << st.correcting >> ELSE << >>]

(***************************************************************************)
(* C13.  A conversation whose record creation failed is not blocked: it    *)
(* has left Start for AskSubmissionDate, holds no conversation_id and has  *)
(* issued no update, then or later; and after the same calls it is on the  *)
(* node, and has given the result, of a conversation that holds a record.  *)
(***************************************************************************)
C13_NoRecordNoBlock ==
    /\ CreationFailed(calls)
          => /\ ~Has(state, "conversation_id")
             /\ Requests("update", calls) = {}
             /\ node.name # "Start"
             /\ Len(calls) = 1 /\ call.fn = "claim_found_in_system"
                  => node.name = "AskSubmissionDate"
    /\ (other.phase = "lead" /\ CreationFailed(other.calls))
          => /\ ~Has(other.state, "conversation_id")
             /\ Requests("update", other.calls) = {}
             /\ Has(state, "conversation_id")
                  => (other.node = node /\ other.result = result)

C13_Witness ==
    /\ other.phase = "lead"
    /\ Has(state, "conversation_id")
    /\ CreationFailed(other.calls)
    /\ Len(other.calls) = 1
    /\ node.name = "Verify"
    /\ other.node.name = "Verify"
    /\ call.fn = "capture_status"

(***************************************************************************)
(* C14.  Persistence outcomes never alter the flow: two conversations      *)
(* served the same calls with the same arguments, the persistence requests *)
(* of the first succeeding or failing in any way and the record creation   *)
(* of the second failing, agree after every call on the node, the result,  *)
(* the three slots and correcting; and the second is always on a node that *)
(* declares the function the first was just served.                        *)
(***************************************************************************)
C14_PersistenceNeverAltersFlow ==
    /\ other.phase = "lead"
          => FlowView(node, result, state) = FlowView(other.node, other.result, other.state)
    /\ other.phase = "follow" => other.call.fn \in node.functions

C14_Witness ==
    /\ other.phase = "lead"
    /\ node.name = "Verify"
    /\ call.fn = "capture_amount"
    /\ Has(state, "conversation_id")
    /\ update_ret = PyBool(FALSE)
    /\ CorrectingIs(FALSE, state)
    /\ Requests("update", other.calls) = {}
    /\ other.node.name = "Verify"

(***************************************************************************)
(* C15.  The claim number is generated once and never changes: the number  *)
(* the Start node announces is the number the claim acknowledgment stores  *)
(* in the conversation state and passes to the record creation, every      *)
(* Verify node recites the stored number, and no later call writes         *)
(* claim_number.                                                           *)
(***************************************************************************)
C15_ClaimNumberImmutable ==
    [][ /\ (node.name = "Start" /\ call'.fn = "claim_found_in_system")
              => /\ state'.claim_number = node.embeds[1]
                 /\ calls'[1].claim_id = node.embeds[1]
        /\ node'.name = "Verify" => node'.embeds[1] = state'.claim_number
        /\ Has(state, "claim_number")
              => (Has(state', "claim_number") /\ state'.claim_number = state.claim_number) ]_vars

(***************************************************************************)
(* Vocabulary of the function-level properties.                            *)
(***************************************************************************)
\* the probe is a finished call of fn
Probed(fn) == probe.fn = fn /\ probe.done

\* the call returned (it did not raise) a Valid / an Invalid result
GaveValid(out) == out.exc = "" /\ out.is_valid
GaveInvalid(out) == out.exc = "" /\ ~out.is_valid

\* the eight canonical labels, in the order the claim fixes
CanonicalLabels ==
    << "Pending", "Approved", "Denied", "Rejected", "In Review",
       "Under Investigation", "Closed", "Appealed" >>

\* the labels the trimmed lower-cased text matches, one way or the other
MatchingLabels(text) ==
    {i \in 1..Len(CanonicalLabels) :
        \/ Contains(text, Lower(CanonicalLabels[i]))
        \/ Contains(Lower(CanonicalLabels[i]), text)}

\* s is "$", digits in groups of three separated by ",", ".", two digits
IsCurrency(s) ==
    /\ Len(s) >= 5
    /\ Chr(s, 1) = "$"
    /\ Chr(s, Len(s) - 2) = "."
    /\ IsDigit(Chr(s, Len(s) - 1)) /\ IsDigit(Chr(s, Len(s)))
    /\ IsDigit(Chr(s, 2))
    /\ (Chr(s, 2) = "0" => Len(s) = 5)
    /\ \A i \in 2..(Len(s) - 3) :
          IF (Len(s) - 2 - i) % 4 = 0 THEN Chr(s, i) = "," ELSE IsDigit(Chr(s, i))

(***************************************************************************)
(* C16.  generate_claim_number always returns 13 characters: ten, each one *)
(* of A-Z and 0-9, then "000"; the call always returns.                    *)
(***************************************************************************)
C16_ClaimNumberShape ==
    Probed("generate_claim_number")
      => /\ Len(probe.output) = 13
         /\ \A i \in 1..10 :
               \/ IndexIn(Chr(probe.output, i), UpperLetters) > 0
               \/ IsDigit(Chr(probe.output, i))
         /\ SubSeq(probe.output, 11, 13) = "000"

C16_Witness ==
    /\ Probed("generate_claim_number")
    /\ probe.output = "ZZ99XX00QQ000"

(***************************************************************************)
(* C17.  validate_status, for a non-empty string, returns Valid with the   *)
(* first label, in the order Pending, Approved, Denied, Rejected, In       *)
(* Review, Under Investigation, Closed, Appealed, such that the trimmed    *)
(* lower-cased input is part of the lower-cased label or the lower-cased   *)
(* label is part of that input; it returns Invalid, with a message that    *)
(* lists the eight labels, exactly when no label matches; a Valid result   *)
(* is one of the eight labels; "pend" gives Pending and "xyz" Invalid.     *)
(***************************************************************************)
C17_StatusFirstMatch ==
    (Probed("validate_status") /\ probe.input.t = "str" /\ probe.input.v # "")
      => LET text == Strip(Lower(probe.input.v))
             hits == MatchingLabels(text)
         IN  /\ hits # {}
                  => /\ GaveValid(probe.output)
                     /\ \E i \in hits :
                           /\ \A j \in hits : i <= j
                           /\ probe.output.result = CanonicalLabels[i]
             /\ hits = {}
                  => /\ GaveInvalid(probe.output)
                     /\ \A i \in 1..Len(CanonicalLabels) :
                           Contains(CanonicalLabels[i], probe.output.result)
             /\ probe.input.v = "pend" => probe.output = Returned(TRUE, "Pending")
             /\ probe.input.v = "xyz" => GaveInvalid(probe.output)

C17_Witness ==
    /\ Probed("validate_status")
    /\ probe.input = PyStr(" It is approved now")
    /\ probe.output = Returned(TRUE, "Approved")

(***************************************************************************)
(* C18.  validate_amount does not depend on the currency symbol, the       *)
(* thousands separators and the surrounding whitespace: "$1,234.50",       *)
(* "1234.5" and " 1,234.50 " all give Valid "$1,234.50"; an input that     *)
(* parses to a value <= 0 ("-5", "0") or does not parse gives Invalid; and *)
(* every Valid result has the form "$", grouped digits, ".", two digits.   *)
(***************************************************************************)
C18_AmountCanonical ==
    (Probed("validate_amount") /\ probe.input.t = "str")
      => /\ probe.input.v \in {"$1,234.50", "1234.5", " 1,234.50 "}
              => probe.output = Returned(TRUE, "$1,234.50")
         /\ probe.input.v \in {"-5", "0", "banana"} => GaveInvalid(probe.output)
         /\ GaveValid(probe.output) => IsCurrency(probe.output.result)

(***************************************************************************)
(* C19.  Each validator returns Invalid on the empty string, and a capture *)
(* call whose argument is missing or empty re-asks the node it was made    *)
(* on, with an error, and stores nothing.                                  *)
(***************************************************************************)
EmptyArgument(c) ==
    /\ c.fn \in CaptureFunctions
    /\ (c.args = NoArgs \/ \E k \in DOMAIN c.args : c.args[k] = PyStr(""))

C19_EmptyInputReasks ==
    [][ EmptyArgument(call')
          => /\ GaveInvalid(Validation(call'))
             /\ node.name \in AskingNodes
             /\ node' = node
             /\ HasError(result')
             /\ state' = state
             /\ calls' = calls ]_vars

C19_Witness ==
    /\ node.name = "AskAmount"
    /\ call = [fn |-> "capture_amount", args |-> NoArgs]
    /\ HasError(result)
    /\ ~Has(state, "amount")

(***************************************************************************)
(* C20.  Every validator returns a result, Valid or Invalid, for every     *)
(* value the runtime can pass, values that are not strings included; it    *)
(* never raises.                                                           *)
(***************************************************************************)
C20_ValidatorsNeverRaise ==
    (probe.done /\ probe.fn \in {"validate_date", "validate_status", "validate_amount"})
      => (GaveValid(probe.output) \/ GaveInvalid(probe.output))

(***************************************************************************)
(* C21.  Every transition is total: a call of a function the current node  *)
(* declares, with valid or invalid arguments, returns a result and a next  *)
(* node and never raises; and whenever the date or the status is asked     *)
(* with correcting true, claim_number and the three slots are present in   *)
(* the conversation state.                                                 *)
(***************************************************************************)
SlotsPresentWhenCorrecting ==
    (node.name \in AskingNodes /\ CorrectingIs(TRUE, state))
      => (Slots \cup {"claim_number"}) \subseteq DOMAIN state

C21_TransitionsTotal ==
    /\ result.type # "exception"
    /\ SlotsPresentWhenCorrecting

(***************************************************************************)
(* Vocabulary of the read-back and of the frame of a capture.              *)
(***************************************************************************)
\* the four values a Verify node embeds in its instruction, by state key
Recited(nd) ==
    [claim_number |-> nd.embeds[1], submission_date |-> nd.embeds[2],
     status |-> nd.embeds[3], amount |-> nd.embeds[4]]

\* the four values as the conversation state holds them
Held(st) == [k \in Slots \cup {"claim_number"} |-> st[k]]

(***************************************************************************)
(* C25.  Every Verify node is rendered from the conversation state of the  *)
(* moment it is built: its four embedded values are the claim number,      *)
(* submission date, status and amount the state then holds; and the Verify *)
(* node built by an accepted correction recites the corrected value for    *)
(* the corrected field and, for the other three, the values the state held *)
(* before the correction.                                                  *)
(***************************************************************************)
C25_VerifyReadsBackState ==
    [][ /\ node'.name = "Verify" => Recited(node') = Held(state')
        /\ (CorrectingIs(TRUE, state) /\ Accepted(call'))
              => /\ node'.name = "Verify"
                 /\ Recited(node')[SlotOf(call'.fn)] = Validation(call').result
                 /\ \A k \in (Slots \cup {"claim_number"}) \ {SlotOf(call'.fn)} :
                        Recited(node')[k] = state[k] ]_vars

C25_Witness ==
    /\ node.name = "Verify"
    /\ call = [fn |-> "capture_status", args |-> [status |-> PyStr("It is Under Investigation")]]
    /\ CorrectingIs(FALSE, state)
    /\ Recited(node) = [claim_number |-> state.claim_number,
                        submission_date |-> "2024-01-15",
                        status |-> "Under Investigation", amount |-> "$500.00"]

(***************************************************************************)
(* C26.  An accepted capture changes only its own slot: every other key of *)
(* the state except correcting (the other two slots, claim_number,         *)
(* conversation_id) keeps its value and no key but the slot and correcting *)
(* appears; a verify_information call leaves the whole state as it was;    *)
(* and a slot present in the state is present after every step.            *)
(***************************************************************************)
C26_CaptureFrame ==
    [][ /\ Accepted(call')
              => /\ state'[SlotOf(call'.fn)] = Validation(call').result
                 /\ \A k \in DOMAIN state \ {SlotOf(call'.fn), "correcting"} :
                        Has(state', k) /\ state'[k] = state[k]
                 /\ DOMAIN state' \subseteq DOMAIN state \cup {SlotOf(call'.fn), "correcting"}
        /\ (node.name = "Verify" /\ call'.fn = "verify_information") => state' = state
        /\ \A k \in Slots : Has(state, k) => Has(state', k) ]_vars

C26_Witness ==
    /\ node.name = "Verify"
    /\ call = [fn |-> "capture_submission_date", args |-> [date |-> PyStr("it was 03/04/2023")]]
    /\ CorrectingIs(FALSE, state)
    /\ state.submission_date = "2023-03-04"
    /\ Has(state, "conversation_id")

(***************************************************************************)
(* C27.  A field name with keywords of more than one group is routed by    *)
(* the first group that matches, in the order date, status, amount: with   *)
(* "date" or "submit" and also "status" or an amount keyword it goes to    *)
(* AskSubmissionDate ("update the amount" does); with "status" and an      *)
(* amount keyword, and no date keyword, it goes to AskStatus.              *)
(***************************************************************************)
C27_FirstGroupDecides ==
    [][ (node.name = "Correction" /\ IsFieldCall(call'))
          => /\ (/\ NamesDate(FieldName(call'))
                 /\ NamesStatus(FieldName(call')) \/ NamesAmount(FieldName(call')))
                  => node'.name = "AskSubmissionDate"
             /\ FieldName(call') = "update the amount" => node'.name = "AskSubmissionDate"
             /\ (/\ NamesStatus(FieldName(call'))
                 /\ NamesAmount(FieldName(call'))
                 /\ ~NamesDate(FieldName(call')))
                  => node'.name = "AskStatus" ]_vars

C27_Witness ==
    /\ node.name = "AskStatus"
    /\ call = [fn |-> "identify_correction", args |-> [field_to_correct |-> PyStr("status and amount")]]
    /\ CorrectingIs(TRUE, state)

(***************************************************************************)
(* Vocabulary of the order of the persistence requests.                    *)
(***************************************************************************)
\* the updates of the log that set state to "done"
DoneRequests(log) ==
    {i \in Requests("update", log) : log[i].key = "state" /\ log[i].value = "done"}

\* the updates of the log that set key
UpdatesOf(key, log) == {i \in Requests("update", log) : log[i].key = key}

\* the value of the last update of key in the log
LastValue(key, log) ==
    log[CHOOSE i \in UpdatesOf(key, log) : \A j \in UpdatesOf(key, log) : j <= i].value

(***************************************************************************)
(* C29.  Order of the persistence requests of one conversation: the insert *)
(* is the first request and the only insert, so it precedes every update;  *)
(* at most one update sets state to "done", it is the last request, and    *)
(* updates of claim_date, claim_status and claim_amount precede it; and    *)
(* when it is issued, by the confirmation of a Verify node, the last       *)
(* claim_date and claim_status updates carry the date and status that node *)
(* recites and the last claim_amount update carries the number whose       *)
(* currency rendering that node recites.                                   *)
(***************************************************************************)
C29_PersistenceOrder ==
    [][ /\ Requests("update", calls') # {}
              => (Requests("insert", calls') = {1} /\ calls'[1].ret # PyNone)
        /\ Cardinality(DoneRequests(calls')) <= 1
        /\ \A d \in DoneRequests(calls') :
              /\ d = Len(calls')
              /\ \A key \in {"claim_date", "claim_status", "claim_amount"} :
                    \E i \in UpdatesOf(key, calls') : i < d
        /\ (DoneRequests(calls) = {} /\ DoneRequests(calls') # {})
              => /\ node.name = "Verify" /\ node'.name = "End"
                 /\ LastValue("claim_date", calls') = Recited(node).submission_date
                 /\ LastValue("claim_status", calls') = Recited(node).status
                 /\ "$" \o FormatAmount(LastValue("claim_amount", calls'))
                      = Recited(node).amount ]_vars

C29_Witness ==
    /\ node.name = "End"
    /\ DoneRequests(calls) = {Len(calls)}
    /\ Cardinality(UpdatesOf("claim_status", calls)) = 2
    /\ LastValue("claim_status", calls) = "Under Investigation"
    /\ LastValue("claim_amount", calls) = float("1234.50")

(***************************************************************************)
(* C28.  validate_status returns a Valid result only for a text with at   *)
(* least one character that is not whitespace: a text made of whitespace   *)
(* alone, like the empty text, gets an Invalid result.                     *)
(***************************************************************************)
C28_BlankStatusRejected ==
    (Probed("validate_status") /\ probe.input.t = "str" /\ Strip(probe.input.v) = "")
      => GaveInvalid(probe.output)

(***************************************************************************)
(* The conversation as the user drives it, for the questions of progress.  *)
(* The steps are those of Next, told apart by what the user gave: an       *)
(* acknowledgment, a value the validator accepts or not, a field name that *)
(* is recognized or not, a confirmation or a decline.  The conversations   *)
(* followed are those whose record could not be created: they issue no     *)
(* update, so the log stays as it is after the insert and loops of any     *)
(* length fit in the bound on the log.                                     *)
(***************************************************************************)
Acknowledge ==
    /\ ClaimFoundInSystem
    /\ ~Has(state', "conversation_id")
    /\ Alone

GiveValid ==
    /\ CaptureSubmissionDate \/ CaptureStatus \/ CaptureAmount
    /\ Accepted(call')
    /\ Alone

GiveInvalid ==
    /\ CaptureSubmissionDate \/ CaptureStatus \/ CaptureAmount
    /\ ~Accepted(call')
    /\ Alone

NameField ==
    /\ IdentifyCorrection
    /\ node'.name \in AskingNodes
    /\ Alone

NameNothing ==
    /\ IdentifyCorrection
    /\ node'.name \notin AskingNodes
    /\ Alone

Confirm ==
    /\ VerifyInformation
    /\ node'.name = "End"
    /\ Alone

Decline ==
    /\ VerifyInformation
    /\ node'.name # "End"
    /\ Alone

LiveNext ==
    \/ Acknowledge
    \/ GiveValid
    \/ GiveInvalid
    \/ NameField
    \/ NameNothing
    \/ Confirm
    \/ Decline

\* the user acknowledges the claim, and keeps coming back to a valid value,
\* to a recognized field name and to a confirmation
Fairness ==
    /\ WF_vars(Acknowledge)
    /\ SF_vars(GiveValid)
    /\ SF_vars(NameField)
    /\ SF_vars(Confirm)

LiveSpec == Init /\ [][LiveNext]_vars /\ Fairness

ObserverNext == OnPushFrame

ObserverSpec == Init /\ [][ObserverNext]_vars

\* the positions of the frames of this type among the frames pushed
FramesOf(type, pushed) == {k \in 1..Len(pushed) : pushed[k].frame.type = type}

\* the user stop still waiting for the bot: the latest UserStoppedSpeaking
\* frame, when no BotStartedSpeaking frame came after it
PendingStop(pushed) ==
    {k \in FramesOf("UserStoppedSpeakingFrame", pushed) :
        \A j \in FramesOf("UserStoppedSpeakingFrame", pushed)
                   \cup FramesOf("BotStartedSpeakingFrame", pushed) : j <= k}

(***************************************************************************)
(* C24.  One latency sample for each pair of user stop and bot start.  A   *)
(* BotStartedSpeaking frame pushed while a user stop is waiting adds one   *)
(* sample, the time from the latest UserStoppedSpeaking frame to it, and   *)
(* clears the waiting time; any other frame, and a BotStartedSpeaking      *)
(* frame with no user stop waiting, adds no sample; and the samples never  *)
(* outnumber the UserStoppedSpeaking frames pushed.                        *)
(***************************************************************************)
C24_OneSamplePerPair ==
    [][ frames' # frames
          => LET last == frames'[Len(frames')]
                 before == observer.metrics_collector.latencies
                 after == observer'.metrics_collector.latencies
             IN  /\ IF last.frame.type = "BotStartedSpeakingFrame" /\ PendingStop(frames) # {}
                    THEN /\ \E k \in PendingStop(frames) :
                              after = Append(before, last.time - frames[k].time)
                         /\ observer'.user_stop_time = PyNone
                    ELSE after = before
                 /\ Len(after) <= Cardinality(FramesOf("UserStoppedSpeakingFrame", frames')) ]_vars

C24_Witness ==
    /\ Len(frames) = 4
    /\ frames[1] = [frame |-> Frame("UserStoppedSpeakingFrame", << >>), time |-> 2]
    /\ frames[2] = [frame |-> Frame("UserStoppedSpeakingFrame", << >>), time |-> 1]
    /\ frames[3] = [frame |-> Frame("BotStartedSpeakingFrame", << >>), time |-> 2]
    /\ frames[4].frame.type = "BotStartedSpeakingFrame"
    /\ observer.metrics_collector.latencies = << 1 >>

(***************************************************************************)
(* Two calls of one conversation served side by side.  The handlers are    *)
(* coroutines of one event loop: a handler runs until it returns or until  *)
(* an await hands control back to the loop, and only then can the other    *)
(* run.  Each handler is cut at its await of update_conversation_record:   *)
(* Entered is the part before it, Left the part after it.                  *)
(***************************************************************************)
\* the await of update_conversation_record handing control to the event loop
AwaitYields_always == TRUE

\* whether `await update_conversation_record(...)` hands control to the event
\* loop: the body of the coroutine holds no await (the client is synchronous),
\* so it runs to its return without the loop taking over
AwaitYields == FALSE

SideBySide == {"capture_submission_date", "capture_status", "capture_amount",
               "identify_correction"}

ArgsOf(fn) ==
    CASE fn = "capture_submission_date" -> DateArgs
      [] fn = "capture_status" -> StatusArgs
      [] fn = "capture_amount" -> AmountArgs
      [] fn = "identify_correction" -> CorrectionArgs

\* is_valid, result = validate_...(args.get(..., ""))
Captured(fn, args) ==
    CASE fn = "capture_submission_date" -> DateTable[ArgGet(args, "date", PyStr(""))]
      [] fn = "capture_status" -> StatusTable[ArgGet(args, "status", PyStr(""))]
      [] fn = "capture_amount" -> AmountTable[ArgGet(args, "amount", PyStr(""))]

\* the key of flow_manager.state the handler assigns
StateKey(fn) ==
    CASE fn = "capture_submission_date" -> "submission_date"
      [] fn = "capture_status" -> "status"
      [] fn = "capture_amount" -> "amount"

\* the column and the value of the update the handler requests
Column(fn) ==
    CASE fn = "capture_submission_date" -> "claim_date"
      [] fn = "capture_status" -> "claim_status"
      [] fn = "capture_amount" -> "claim_amount"

ColumnValue(fn, value) ==
    IF fn = "capture_amount"
    THEN With(With(Remove(value, "$"), LAMBDA a : Remove(a, ",")), float)
    ELSE value

\* a handler from its first line to its await: the slot assigned, the update
\* requested; awaits tells whether the await is reached
Entered(fn, args, st, log) ==
    IF fn = "identify_correction"
    THEN [state |-> st, calls |-> log, awaits |-> FALSE]
    ELSE With(Captured(fn, args), LAMBDA v :
           IF v.exc = "" /\ v.is_valid
           THEN With(Put(st, StateKey(fn), v.result), LAMBDA st1 :
                  [state |-> st1,
                   calls |-> Updated(st1, log, Column(fn), ColumnValue(fn, v.result)),
                   awaits |-> HasRecord(st1)])
           ELSE [state |-> st, calls |-> log, awaits |-> FALSE])

CaptureResult(fn, value) ==
    CASE fn = "capture_submission_date" -> SubmissionDateResult(value)
      [] fn = "capture_status" -> StatusResult(value)
      [] fn = "capture_amount" -> AmountResult(value)

\* the error the handler returns with the validator's message
CaptureError(fn, message) ==
    CASE fn = "capture_submission_date" ->
           FlowResultError("I'm sorry, " \o message
               \o ". Could you please provide the date again? For example, you can say January 15th 2024, or 01/15/2024.")
      [] fn = "capture_status" ->
           FlowResultError("I'm sorry, " \o message \o ". Please provide one of these statuses.")
      [] fn = "capture_amount" ->
           FlowResultError("I'm sorry, " \o message \o ". Please provide the claim amount as a number.")

\* the node the handler asks again with, and the node it goes on to
SameNode(fn) ==
    CASE fn = "capture_submission_date" -> ask_submission_date_node
      [] fn = "capture_status" -> ask_status_node
      [] fn = "capture_amount" -> ask_amount_node

\* verify_information_node(...) as the handler calls it: its own value from
\* the local variable, the others from flow_manager.state
ReadBack(fn, value, st) ==
    verify_information_node(
        st.claim_number,
        IF fn = "capture_submission_date" THEN value ELSE st.submission_date,
        IF fn = "capture_status" THEN value ELSE st.status,
        IF fn = "capture_amount" THEN value ELSE st.amount)

\* a capture handler from its await to its return
CaptureLeft(fn, args, st, log, nd) ==
    With(Captured(fn, args), LAMBDA v :
      IF v.exc # "" THEN Outcome(st, log, Exception(v.exc), nd)
      ELSE IF ~v.is_valid THEN Outcome(st, log, CaptureError(fn, v.result), SameNode(fn))
      ELSE With(IF Correcting(st) THEN Put(st, "correcting", FALSE) ELSE st, LAMBDA st2 :
             IF Correcting(st) \/ fn = "capture_amount"
             THEN IF (Slots \cup {"claim_number"}) \subseteq DOMAIN st2
                  THEN Outcome(st2, log, CaptureResult(fn, v.result),
                               ReadBack(fn, v.result, st2))
                  ELSE Outcome(st2, log, Exception("KeyError"), nd)
             ELSE IF fn = "capture_submission_date"
             THEN Outcome(st2, log, CaptureResult(fn, v.result), ask_status_node)
             ELSE Outcome(st2, log, CaptureResult(fn, v.result), ask_amount_node)))

\* handle_correction, which awaits nothing
CorrectionLeft(args, st, log, nd) ==
    LET field == ArgGet(args, "field_to_correct", PyStr(""))
        field_to_correct == Lower(field.v)
        st1 == Put(st, "correcting", TRUE)
    IN  IF field.t # "str" THEN Outcome(st, log, Exception("AttributeError"), nd)
        ELSE IF Contains("date", field_to_correct) \/ Contains("submit", field_to_correct)
        THEN Outcome(st1, log, FlowResult, ask_submission_date_node)
        ELSE IF Contains("status", field_to_correct)
        THEN Outcome(st1, log, FlowResult, ask_status_node)
        ELSE IF \/ Contains("amount", field_to_correct)
                \/ Contains("money", field_to_correct)
                \/ Contains("dollar", field_to_correct)
        THEN Outcome(st1, log, FlowResult, ask_amount_node)
        ELSE Outcome(st1, log,
                 FlowResultError("I didn't catch which field you'd like to correct. Please specify the submission date, status, or amount."),
                 correction_node)

Left(fn, args, st, log, nd) ==
    IF fn = "identify_correction"
    THEN CorrectionLeft(args, st, log, nd)
    ELSE CaptureLeft(fn, args, st, log, nd)

\* a handler run from its first line to its return with nothing in between
Whole(fn, args, c) ==
    With(Entered(fn, args, c.state, c.calls), LAMBDA e :
      Left(fn, args, e.state, e.calls, c.node))

Task(fn, args) == [fn |-> fn, args |-> args, pc |-> "start", out |-> PyNone]

\* what a handler returned to the runtime
Return(out) == [result |-> out.result, node |-> out.node]

\* calls served one at a time before the two side by side
MaxSoloCalls == 5

Solo ==
    /\ tasks = NoTasks
    /\ Len(calls) <= MaxSoloCalls
    /\ Handle
    /\ Alone

\* the runtime starts two calls of a function the node declares; base keeps
\* the conversation as they found it
Dispatch ==
    /\ tasks = NoTasks
    /\ \E fn \in SideBySide :
         /\ Offered(fn)
         /\ \E first \in ArgsOf(fn) : \E second \in ArgsOf(fn) :
              tasks' = [run |-> << Task(fn, first), Task(fn, second) >>,
                        base |-> [state |-> state, calls |-> calls, node |-> node]]
    /\ UNCHANGED << node, state, result, call, calls, update_ret >>
    /\ UNCHANGED << other, probe, observer, frames >>

\* the event loop runs a handler: from its start, or from the await it was
\* left at, to its next await that yields or to its return
Run(i) ==
    /\ tasks # NoTasks
    /\ tasks.run[i].pc # "done"
    /\ \E t \in {tasks.run[i]} :
       \E e \in {IF t.pc = "start"
                 THEN Entered(t.fn, t.args, state, calls)
                 ELSE [state |-> state, calls |-> calls, awaits |-> FALSE]} :
         IF t.pc = "start" /\ e.awaits /\ AwaitYields
         THEN /\ state' = e.state
              /\ calls' = e.calls
              /\ tasks' = [tasks EXCEPT !.run[i].pc = "awaiting"]
              /\ UNCHANGED << node, result, call, update_ret >>
         ELSE \E out \in {Left(t.fn, t.args, e.state, e.calls, node)} :
              \E ok \in update_conversation_record(state, t.fn) :
                /\ state' = out.state
                /\ calls' = out.calls
                /\ result' = out.result
                /\ node' = out.node
                /\ call' = [fn |-> t.fn, args |-> t.args]
                /\ update_ret' = IF t.pc = "awaiting" \/ e.awaits THEN PyBool(ok) ELSE PyNone
                /\ tasks' = [tasks EXCEPT !.run[i].pc = "done", !.run[i].out = Return(out)]
    /\ UNCHANGED << other, probe, observer, frames >>

ConcurrentNext ==
    \/ Solo
    \/ Dispatch
    \/ \E i \in {1, 2} : Run(i)

ConcurrentSpec == Init /\ [][ConcurrentNext]_vars

\* the two calls served one after the other, in this order, from the base
InOrder(i, j) ==
    With(Whole(tasks.run[i].fn, tasks.run[i].args, tasks.base), LAMBDA a :
      With(Whole(tasks.run[j].fn, tasks.run[j].args, a), LAMBDA b :
        [state |-> b.state, calls |-> b.calls, node |-> b.node,
         returned |-> [k \in {i, j} |-> IF k = i THEN Return(a) ELSE Return(b)]]))

\* both calls have returned
BothReturned == tasks # NoTasks /\ \A i \in {1, 2} : tasks.run[i].pc = "done"

====
